---- MODULE Spec2Model ----
(***************************************************************************)
(* The debt ledger of contracts/BillTheAccountant.sol: the netting step    *)
(* (addDebt), the propose / confirm / reject workflow over pendingDebts,   *)
(* settlement with its external token transfer, and the event log.         *)
(*                                                                         *)
(* Every public function is one atomic action (an EVM transaction or a     *)
(* nested call): a failing require leaves the contract state as it was and *)
(* is visible only in lastCall.  settleDebt is split at its external call  *)
(* IERC20.transferFrom: while that call is in flight the token may call    *)
(* back into the ledger (stack is non-empty), return true, return false,   *)
(* or revert.                                                              *)
(*                                                                         *)
(* The clients' views of the ledger (scripts/deploy.ts): the balance and   *)
(* history commands as functions of one state of the chain, and the        *)
(* balance command as the sequence of reads that it makes while            *)
(* transactions commit (view); and the add-debt command, which sends a     *)
(* proposeDebt transaction and then controls for the debtor (bot).         *)
(***************************************************************************)
EXTENDS Integers, Sequences, FiniteSets, Bags, TLC

\* ------------------------------------------------------------ bounds
\* Largest number of proposals created in one behaviour of Spec, where every
\* call is made, the failing ones too; SpecLedger creates one more.
MaxProposals == 1
\* Largest nesting of settleDebt calls whose transfer is in flight.
MaxDepth == 2
\* Largest number of direct addDebt applications in the netting specification.
MaxNetSteps == 4
\* Stand-in for type(uint256).max.
MaxUint == 1000
\* Largest number of bill analyses presented for confirmation.
MaxAnalyses == 1
\* Largest number of clicks on the buttons of the bill analyses.
MaxClicks == 2

\* ------------------------------------------------------------ program constants
\* SUPPORTED_TOKENS' decimals of ETH and of USDC, and the decimals that
\* parseTokenIdentifier gives to an address.
EthDecimals == 18
UsdcDecimals == 6
DefaultDecimals == 18

\* ------------------------------------------------------------ value sets
\* A and B are externally owned accounts, M is a contract account: only a
\* contract can be msg.sender of a call made while a transfer is in flight.
Accounts == {"A", "B", "M"}
Contracts == {"M"}
Tokens == {"T1", "T2"}
Amounts == {0, 1, MaxUint}
\* The inputs of the specifications below.
CallTokens == {"T1"}
LedgerAmounts == {1, 2, MaxUint}
NetAccounts == {"A", "B"}
NetAmounts == {0, 20, 80, 100, 200}
ReentryAmounts == {1, 2}
PairAccounts == {"A", "B"}
ViewAmounts == {1, 2}
Memos == {"lunch"}
MaxLedgerProposals == MaxProposals + 1
\* The proposal ids of the model, and those that the calls of Spec name.
Ids == 1..MaxLedgerProposals
CallIds == 1..MaxProposals
\* address(0), the default of an unset address in storage.
ZeroAddress == "0x0"

\* Revert reasons, as the contract spells them.
ErrSame == "Debtor and creditor cannot be the same"
ErrPositive == "Debt amount must be positive"
ErrNoPending == "Pending debt does not exist"
ErrOnlyDebtor == "Only the debtor can confirm the debt"
ErrOnlyParty == "Only debtor or creditor can reject"
ErrNoDebt == "No debt to settle"
\* Solidity 0.8 checked arithmetic: Panic(0x11).
ErrEmptyId == "Discord ID cannot be empty"
ErrZeroWallet == "Wallet address cannot be zero"
ErrIdRegistered == "Discord ID already registered"
ErrWalletRegistered == "Wallet already registered"
ErrPanic == "Panic(0x11)"
\* The token's transferFrom reverted; the revert bubbles up through settleDebt.
ErrTransfer == "transferFrom reverted"
Ok == "ok"
\* settleDebt has made its external call, which has not returned yet.
Calling == "calling"

VARIABLES
    debts,               \* token -> debtor -> creditor -> amount
    debtActionCounter,
    pendingDebts,        \* id -> PendingDebt
    pendingDebtCounter,
    log,                 \* the events emitted so far, in order
    moved,               \* the token transfers that took effect, in order
    stack,               \* the settleDebt calls whose transferFrom is in flight
    lastCall,            \* the most recent call or return, and how it ended
    view,                \* the client's balance command: its position and what it read
    bot,                 \* the client's add-debt command: its position and what it read
    users,               \* discordToWallet and walletToDiscord
    bills,               \* the client's bill analyses awaiting confirmation
    units                \* the client's conversion of an amount: its input and results

vars ==
    <<debts, debtActionCounter, pendingDebts, pendingDebtCounter, log, moved, stack,
      lastCall, view, bot, users, bills, units>>

\* What a revert rolls back: contract storage, the events, the token's state.
chain ==
    <<debts, debtActionCounter, pendingDebts, pendingDebtCounter, log, moved, users>>

\* The state a reverting call returns to.
Snapshot ==
    [debts |-> debts, debtActionCounter |-> debtActionCounter,
     pendingDebts |-> pendingDebts, pendingDebtCounter |-> pendingDebtCounter,
     log |-> log, moved |-> moved, users |-> users]

\* ------------------------------------------------------------ data
\* The zero value of struct PendingDebt (an id never written, or deleted).
NoPending ==
    [creditor |-> ZeroAddress, debtor |-> ZeroAddress, token |-> ZeroAddress,
     amount |-> 0, memo |-> "", exists |-> FALSE]

PendingDebt(creditor, debtor, token, amount, memo) ==
    [creditor |-> creditor, debtor |-> debtor, token |-> token,
     amount |-> amount, memo |-> memo, exists |-> TRUE]

\* The events, with their arguments in the order of the contract; the
\* block.timestamp of DebtAdded is not modelled.
DebtAdded(actionId, debtor, creditor, token, amount, memo) ==
    [type |-> "DebtAdded", actionId |-> actionId, debtor |-> debtor,
     creditor |-> creditor, token |-> token, amount |-> amount, memo |-> memo]

DebtSettled(debtor, creditor, token, amount) ==
    [type |-> "DebtSettled", debtor |-> debtor, creditor |-> creditor,
     token |-> token, amount |-> amount]

DebtProposed(pendingDebtId, creditor, debtor, token, amount, memo) ==
    [type |-> "DebtProposed", pendingDebtId |-> pendingDebtId, creditor |-> creditor,
     debtor |-> debtor, token |-> token, amount |-> amount, memo |-> memo]

DebtConfirmed(pendingDebtId) ==
    [type |-> "DebtConfirmed", pendingDebtId |-> pendingDebtId]

DebtRejected(pendingDebtId) ==
    [type |-> "DebtRejected", pendingDebtId |-> pendingDebtId]

UserRegistered(discordId, walletAddress) ==
    [type |-> "UserRegistered", discordId |-> discordId,
     walletAddress |-> walletAddress]

\* A record of one call: op(sender; id | token, party, amount) and its result.
Call(op, sender, id, token, party, amount, result) ==
    [op |-> op, sender |-> sender, id |-> id, token |-> token, party |-> party,
     amount |-> amount, result |-> result]

NoCall == Call("deploy", ZeroAddress, 0, ZeroAddress, ZeroAddress, 0, Ok)

\* msg.sender of the next call: anyone at top level, a contract during a transfer.
\* A record of one registerUser call and its result.
Registration(sender, discordId, walletAddress, result) ==
    [op |-> "registerUser", sender |-> sender, discordId |-> discordId,
     walletAddress |-> walletAddress, result |-> result]

Senders == IF stack = <<>> THEN Accounts ELSE Contracts

\* The balance command before it is run: nothing read, no reply.
NoReply ==
    [youOweThem |-> 0, theyOweYou |-> 0, youOweThemPending |-> 0, theyOweYouPending |-> 0]

NoView ==
    [pc |-> "idle", debtOwed |-> 0, debtOwing |-> 0, relevantEvents |-> <<>>,
     pendingDebtEvents |-> <<>>, reply |-> NoReply, from |-> 0, ledger |-> 0, to |-> 0]

\* The add-debt command before it is run: no transaction sent, no controls sent.
\* from is the length of the log when the transaction is sent, tx the id that
\* the transaction recorded, pendingDebtId the id that the controls carry,
\* content and components the text and the controls of the debtor's message.
NoCommand ==
    [pc |-> "idle", creditor |-> ZeroAddress, debtor |-> ZeroAddress,
     token |-> ZeroAddress, amount |-> 0, memo |-> "", from |-> 0, tx |-> 0,
     pendingDebtId |-> 0, content |-> "", components |-> FALSE]

\* The Discord ids of the registry; "" is the empty string.
DiscordIds == {"alice", "bob"}
\* No user registered: both mappings at their default values.
NoUsers ==
    [discordToWallet |-> [discordId \in DiscordIds |-> ZeroAddress],
     walletToDiscord |-> [walletAddress \in Accounts |-> ""]]

\* The messages that carry a bill analysis, and the users who click on them.
Messages == 1..MaxAnalyses
BillUsers == {"A", "B"}
\* pendingBillAnalyses.get of a message id that has no entry.
NoAnalysis == [analysis |-> <<>>, requesterId |-> ZeroAddress]
\* Analysis results: the expenses, each with its payer and its participants;
\* amount is the split amount as parseTokenAmount returns it.
BillAnalyses ==
    { <<[payer |-> "A", participants |-> <<"A", "B", "M">>, amount |-> 1,
         description |-> "lunch"]>> }
\* No analysis presented, no click made, no transaction sent.
NoBills ==
    [messages |-> 0,
     editing |-> NoAnalysis,
     components |-> [m \in Messages |-> FALSE],
     pendingBillAnalyses |-> [m \in Messages |-> NoAnalysis],
     timers |-> {},
     handlers |-> EmptyBag,
     txs |-> <<>>]

\* No amount converted yet.
NoUnits ==
    [pc |-> "idle", tokenIdentifier |-> "", amountRaw |-> <<>>,
     tokenInfo |-> [address |-> "", decimals |-> 0, symbol |-> ""],
     amount |-> <<>>, formatted |-> <<>>, parsed |-> <<>>]

\* ------------------------------------------------------------ addDebt
\* addDebt without its require on the amount: a zero amount passes.
addDebtResultAnyAmount(d, token, debtor, creditor, amount) ==
    IF debtor = creditor THEN ErrSame
    ELSE LET existingOppositeDebt == d[token][creditor][debtor] IN
         IF existingOppositeDebt >= amount THEN Ok
         ELSE IF d[token][debtor][creditor] + (amount - existingOppositeDebt) > MaxUint
              THEN ErrPanic
              ELSE Ok

\* addDebt with its addition in an unchecked block: no Panic on overflow.
addDebtResultUnchecked(d, token, debtor, creditor, amount) ==
    IF debtor = creditor THEN ErrSame
    ELSE IF ~(amount > 0) THEN ErrPositive
    ELSE Ok

\* The require / checked-arithmetic outcome of addDebt on ledger d.
addDebtResult(d, token, debtor, creditor, amount) ==
    IF debtor = creditor THEN ErrSame
    ELSE IF ~(amount > 0) THEN ErrPositive
    ELSE LET existingOppositeDebt == d[token][creditor][debtor] IN
         IF existingOppositeDebt >= amount THEN Ok
         ELSE IF d[token][debtor][creditor] + (amount - existingOppositeDebt) > MaxUint
              THEN ErrPanic
              ELSE Ok

\* addDebt without netting: the new debt is recorded beside the opposite one.
addDebtNoNetting(d, token, debtor, creditor, amount) ==
    [d EXCEPT ![token][debtor][creditor] = @ + amount]

\* addDebt that leaves a larger or equal opposite debt as it was.
addDebtKeepOpposite(d, token, debtor, creditor, amount) ==
    LET existingOppositeDebt == d[token][creditor][debtor] IN
    IF existingOppositeDebt >= amount
    THEN d
    ELSE [d EXCEPT ![token][creditor][debtor] = 0,
                   ![token][debtor][creditor] = @ + (amount - existingOppositeDebt)]

\* addDebt that records the gross amount after clearing a smaller opposite debt.
addDebtGross(d, token, debtor, creditor, amount) ==
    LET existingOppositeDebt == d[token][creditor][debtor] IN
    IF existingOppositeDebt >= amount
    THEN [d EXCEPT ![token][creditor][debtor] = existingOppositeDebt - amount]
    ELSE [d EXCEPT ![token][creditor][debtor] = 0,
                   ![token][debtor][creditor] = @ + amount]

\* addDebt that, where the creditor owes the debtor nothing in this token,
\* nets against what the creditor owes the debtor in another token.
addDebtAnyToken(d, token, debtor, creditor, amount) ==
    LET opposite == IF d[token][creditor][debtor] > 0 THEN token
                    ELSE CHOOSE t \in Tokens : t # token
        existingOppositeDebt == d[opposite][creditor][debtor]
    IN
    IF existingOppositeDebt >= amount
    THEN [d EXCEPT ![opposite][creditor][debtor] = existingOppositeDebt - amount]
    ELSE LET cleared == [d EXCEPT ![opposite][creditor][debtor] = 0]
         IN  [cleared EXCEPT ![token][debtor][creditor] = @ + (amount - existingOppositeDebt)]

\* The ledger after addDebt's netting, when addDebtResult is Ok.
addDebt(d, token, debtor, creditor, amount) ==
    LET existingOppositeDebt == d[token][creditor][debtor] IN
    IF existingOppositeDebt >= amount
    THEN [d EXCEPT ![token][creditor][debtor] = existingOppositeDebt - amount]
    ELSE LET cleared == IF existingOppositeDebt > 0
                        THEN [d EXCEPT ![token][creditor][debtor] = 0]
                        ELSE d
         IN  [cleared EXCEPT ![token][debtor][creditor] = @ + (amount - existingOppositeDebt)]

\* ------------------------------------------------------------ actions
Init ==
    /\ debts = [t \in Tokens |-> [d \in Accounts |-> [c \in Accounts |-> 0]]]
    /\ debtActionCounter = 0
    /\ pendingDebts = [i \in Ids |-> NoPending]
    /\ pendingDebtCounter = 0
    /\ log = <<>>
    /\ moved = <<>>
    /\ stack = <<>>
    /\ lastCall = NoCall
    /\ view = NoView
    /\ bot = NoCommand
    /\ users = NoUsers
    /\ bills = NoBills
    /\ units = NoUnits

\* proposeDebt that takes the lowest id whose entry is empty, instead of the
\* next value of the counter.
proposeDebtReuse(sender, token, debtor, amount, memo) ==
    /\ UNCHANGED <<view, bot, bills, units, users>>
    /\ IF debtor = sender
       THEN /\ lastCall' = Call("proposeDebt", sender, 0, ZeroAddress, debtor, 0, ErrSame)
            /\ UNCHANGED <<chain, stack>>
       ELSE LET free == {i \in Ids : ~pendingDebts[i].exists}
                pendingDebtId == CHOOSE i \in free : \A j \in free : i <= j
            IN  /\ pendingDebtCounter' = pendingDebtCounter + 1
                /\ pendingDebts' = [pendingDebts EXCEPT ![pendingDebtId] =
                                       PendingDebt(sender, debtor, token, amount, memo)]
                /\ log' = Append(log, DebtProposed(pendingDebtId, sender, debtor,
                                                   token, amount, memo))
                /\ lastCall' = Call("proposeDebt", sender, pendingDebtId, token,
                                    debtor, amount, Ok)
                /\ UNCHANGED <<debts, debtActionCounter, moved, stack>>

\* proposeDebt without its require: a proposal to oneself is stored too.
proposeDebtUnchecked(sender, token, debtor, amount, memo) ==
    /\ UNCHANGED <<view, bot, bills, units, users>>
    /\ pendingDebtCounter' = pendingDebtCounter + 1
    /\ pendingDebts' = [pendingDebts EXCEPT ![pendingDebtCounter + 1] =
                           PendingDebt(sender, debtor, token, amount, memo)]
    /\ log' = Append(log, DebtProposed(pendingDebtCounter + 1, sender, debtor,
                                       token, amount, memo))
    /\ lastCall' = Call("proposeDebt", sender, pendingDebtCounter + 1, token,
                        debtor, amount, Ok)
    /\ UNCHANGED <<debts, debtActionCounter, moved, stack>>

proposeDebt(sender, token, debtor, amount, memo) ==
    /\ UNCHANGED <<view, bot, bills, units, users>>
    /\ IF debtor = sender
       THEN /\ lastCall' = Call("proposeDebt", sender, 0, ZeroAddress, debtor, 0, ErrSame)
            /\ UNCHANGED <<chain, stack>>
       ELSE /\ pendingDebtCounter' = pendingDebtCounter + 1
            /\ pendingDebts' = [pendingDebts EXCEPT ![pendingDebtCounter + 1] =
                                   PendingDebt(sender, debtor, token, amount, memo)]
            /\ log' = Append(log, DebtProposed(pendingDebtCounter + 1, sender, debtor,
                                               token, amount, memo))
            /\ lastCall' = Call("proposeDebt", sender, pendingDebtCounter + 1, token,
                                debtor, amount, Ok)
            /\ UNCHANGED <<debts, debtActionCounter, moved, stack>>

\* The proposal store with the delete left out.
keepPending(pending, pendingDebtId) == pending

\* delete pendingDebts[pendingDebtId]: the entry is reset to the zero struct.
deletePending(pending, pendingDebtId) ==
    [pending EXCEPT ![pendingDebtId] = NoPending]

\* confirmDebt without the check of msg.sender.
confirmDebtAnyone(sender, pendingDebtId) ==
    LET pending == pendingDebts[pendingDebtId] IN
    IF ~pending.exists THEN ErrNoPending
    ELSE addDebtResult(debts, pending.token, pending.debtor, pending.creditor, pending.amount)

\* confirmDebt without the check of pending.exists.
confirmDebtUnchecked(sender, pendingDebtId) ==
    LET pending == pendingDebts[pendingDebtId] IN
    IF sender # pending.debtor THEN ErrOnlyDebtor
    ELSE addDebtResult(debts, pending.token, pending.debtor, pending.creditor, pending.amount)

\* confirmDebt with the sender check of rejectDebt: the creditor passes too.
confirmDebtEitherParty(sender, pendingDebtId) ==
    LET pending == pendingDebts[pendingDebtId] IN
    IF ~pending.exists THEN ErrNoPending
    ELSE IF ~(sender = pending.debtor \/ sender = pending.creditor) THEN ErrOnlyDebtor
    ELSE addDebtResult(debts, pending.token, pending.debtor, pending.creditor, pending.amount)

\* The require outcome of confirmDebt, the requires of addDebt included.
confirmDebtResult(sender, pendingDebtId) ==
    LET pending == pendingDebts[pendingDebtId] IN
    IF ~pending.exists THEN ErrNoPending
    ELSE IF sender # pending.debtor THEN ErrOnlyDebtor
    ELSE addDebtResult(debts, pending.token, pending.debtor, pending.creditor, pending.amount)

\* confirmDebt that applies the debt with the proposer as its debtor.
confirmDebtProposerOwes(sender, pendingDebtId) ==
    /\ UNCHANGED <<view, bot, bills, units, users>>
    /\ LET pending == pendingDebts[pendingDebtId]
           result == confirmDebtResult(sender, pendingDebtId)
       IN  /\ lastCall' = Call("confirmDebt", sender, pendingDebtId, pending.token,
                               pending.creditor, pending.amount, result)
           /\ IF result # Ok
              THEN UNCHANGED <<chain, stack>>
              ELSE /\ debts' = addDebt(debts, pending.token, pending.creditor,
                                       pending.debtor, pending.amount)
                   /\ debtActionCounter' = debtActionCounter + 1
                   /\ pendingDebts' = deletePending(pendingDebts, pendingDebtId)
                   /\ log' = log \o <<DebtAdded(debtActionCounter + 1, pending.creditor,
                                                pending.debtor, pending.token,
                                                pending.amount, pending.memo),
                                      DebtConfirmed(pendingDebtId)>>
                   /\ UNCHANGED <<pendingDebtCounter, moved, stack>>

\* confirmDebt whose revert does not undo the counter: a call that fails on
\* a require keeps an increment of debtActionCounter.
confirmDebtCountsFailures(sender, pendingDebtId) ==
    /\ UNCHANGED <<view, bot, bills, units, users>>
    /\ LET pending == pendingDebts[pendingDebtId]
           result == confirmDebtResult(sender, pendingDebtId)
       IN  /\ lastCall' = Call("confirmDebt", sender, pendingDebtId, pending.token,
                               pending.creditor, pending.amount, result)
           /\ debtActionCounter' = debtActionCounter + 1
           /\ IF result # Ok
              THEN UNCHANGED <<debts, pendingDebts, pendingDebtCounter, log, moved, stack>>
              ELSE /\ debts' = addDebt(debts, pending.token, pending.debtor,
                                       pending.creditor, pending.amount)
                   /\ pendingDebts' = deletePending(pendingDebts, pendingDebtId)
                   /\ log' = log \o <<DebtAdded(debtActionCounter + 1, pending.debtor,
                                                pending.creditor, pending.token,
                                                pending.amount, pending.memo),
                                      DebtConfirmed(pendingDebtId)>>
                   /\ UNCHANGED <<pendingDebtCounter, moved, stack>>

\* confirmDebt that emits DebtConfirmed before it calls addDebt.
confirmDebtEmitsFirst(sender, pendingDebtId) ==
    /\ UNCHANGED <<view, bot, bills, units, users>>
    /\ LET pending == pendingDebts[pendingDebtId]
           result == confirmDebtResult(sender, pendingDebtId)
       IN  /\ lastCall' = Call("confirmDebt", sender, pendingDebtId, pending.token,
                               pending.creditor, pending.amount, result)
           /\ IF result # Ok
              THEN UNCHANGED <<chain, stack>>
              ELSE /\ debts' = addDebt(debts, pending.token, pending.debtor,
                                       pending.creditor, pending.amount)
                   /\ debtActionCounter' = debtActionCounter + 1
                   /\ pendingDebts' = deletePending(pendingDebts, pendingDebtId)
                   /\ log' = log \o <<DebtConfirmed(pendingDebtId),
                                      DebtAdded(debtActionCounter + 1, pending.debtor,
                                                pending.creditor, pending.token,
                                                pending.amount, pending.memo)>>
                   /\ UNCHANGED <<pendingDebtCounter, moved, stack>>

\* confirmDebt whose DebtAdded carries what was added to the debtor's entry
\* after netting, instead of the amount of the proposal.
confirmDebtLogsNet(sender, pendingDebtId) ==
    /\ UNCHANGED <<view, bot, bills, units, users>>
    /\ LET pending == pendingDebts[pendingDebtId]
           result == confirmDebtResult(sender, pendingDebtId)
           existingOppositeDebt == debts[pending.token][pending.creditor][pending.debtor]
           net == IF existingOppositeDebt >= pending.amount
                  THEN 0 ELSE pending.amount - existingOppositeDebt
       IN  /\ lastCall' = Call("confirmDebt", sender, pendingDebtId, pending.token,
                               pending.creditor, pending.amount, result)
           /\ IF result # Ok
              THEN UNCHANGED <<chain, stack>>
              ELSE /\ debts' = addDebt(debts, pending.token, pending.debtor,
                                       pending.creditor, pending.amount)
                   /\ debtActionCounter' = debtActionCounter + 1
                   /\ pendingDebts' = deletePending(pendingDebts, pendingDebtId)
                   /\ log' = log \o <<DebtAdded(debtActionCounter + 1, pending.debtor,
                                                pending.creditor, pending.token,
                                                net, pending.memo),
                                      DebtConfirmed(pendingDebtId)>>
                   /\ UNCHANGED <<pendingDebtCounter, moved, stack>>

confirmDebt(sender, pendingDebtId) ==
    /\ UNCHANGED <<view, bot, bills, units, users>>
    /\ LET pending == pendingDebts[pendingDebtId]
           result == confirmDebtResult(sender, pendingDebtId)
       IN  /\ lastCall' = Call("confirmDebt", sender, pendingDebtId, pending.token,
                               pending.creditor, pending.amount, result)
           /\ IF result # Ok
              THEN UNCHANGED <<chain, stack>>
              ELSE /\ debts' = addDebt(debts, pending.token, pending.debtor,
                                       pending.creditor, pending.amount)
                   /\ debtActionCounter' = debtActionCounter + 1
                   /\ pendingDebts' = deletePending(pendingDebts, pendingDebtId)
                   /\ log' = log \o <<DebtAdded(debtActionCounter + 1, pending.debtor,
                                                pending.creditor, pending.token,
                                                pending.amount, pending.memo),
                                      DebtConfirmed(pendingDebtId)>>
                   /\ UNCHANGED <<pendingDebtCounter, moved, stack>>

\* rejectDebt with the sender check of confirmDebt: only the debtor passes.
rejectDebtOnlyDebtor(sender, pendingDebtId) ==
    LET pending == pendingDebts[pendingDebtId] IN
    IF ~pending.exists THEN ErrNoPending
    ELSE IF sender # pending.debtor THEN ErrOnlyParty
    ELSE Ok

\* The require outcome of rejectDebt.
rejectDebtResult(sender, pendingDebtId) ==
    LET pending == pendingDebts[pendingDebtId] IN
    IF ~pending.exists THEN ErrNoPending
    ELSE IF ~(sender = pending.debtor \/ sender = pending.creditor) THEN ErrOnlyParty
    ELSE Ok

\* rejectDebt that deletes the proposal without emitting DebtRejected.
rejectDebtSilent(sender, pendingDebtId) ==
    /\ UNCHANGED <<view, bot, bills, units, users>>
    /\ LET pending == pendingDebts[pendingDebtId]
           result == rejectDebtResult(sender, pendingDebtId)
       IN  /\ lastCall' = Call("rejectDebt", sender, pendingDebtId, pending.token,
                               pending.creditor, pending.amount, result)
           /\ IF result # Ok
              THEN UNCHANGED <<chain, stack>>
              ELSE /\ pendingDebts' = deletePending(pendingDebts, pendingDebtId)
                   /\ UNCHANGED <<debts, debtActionCounter, pendingDebtCounter, log,
                                  moved, stack>>

rejectDebt(sender, pendingDebtId) ==
    /\ UNCHANGED <<view, bot, bills, units, users>>
    /\ LET pending == pendingDebts[pendingDebtId]
           result == rejectDebtResult(sender, pendingDebtId)
       IN  /\ lastCall' = Call("rejectDebt", sender, pendingDebtId, pending.token,
                               pending.creditor, pending.amount, result)
           /\ IF result # Ok
              THEN UNCHANGED <<chain, stack>>
              ELSE /\ pendingDebts' = deletePending(pendingDebts, pendingDebtId)
                   /\ log' = Append(log, DebtRejected(pendingDebtId))
                   /\ UNCHANGED <<debts, debtActionCounter, pendingDebtCounter, moved, stack>>

\* settleDebt that makes its external call before it zeroes the entry.
settleDebtNoZero(sender, token, creditor) ==
    /\ UNCHANGED <<view, bot, bills, units, users>>
    /\ LET amountOwed == debts[token][sender][creditor] IN
       IF ~(amountOwed > 0)
       THEN /\ lastCall' = Call("settleDebt", sender, 0, token, creditor, amountOwed, ErrNoDebt)
            /\ UNCHANGED <<chain, stack>>
       ELSE /\ Len(stack) < MaxDepth
            /\ stack' = Append(stack, [token |-> token, debtor |-> sender,
                                       creditor |-> creditor, amountOwed |-> amountOwed,
                                       before |-> Snapshot])
            /\ lastCall' = Call("settleDebt", sender, 0, token, creditor, amountOwed, Calling)
            /\ UNCHANGED chain

\* settleDebt without its require: a zero amount is transferred as well.
settleDebtNoRequire(sender, token, creditor) ==
    /\ UNCHANGED <<view, bot, bills, units, users>>
    /\ LET amountOwed == debts[token][sender][creditor] IN
       /\ Len(stack) < MaxDepth
       /\ debts' = [debts EXCEPT ![token][sender][creditor] = 0]
       /\ stack' = Append(stack, [token |-> token, debtor |-> sender,
                                  creditor |-> creditor, amountOwed |-> amountOwed,
                                  before |-> Snapshot])
       /\ lastCall' = Call("settleDebt", sender, 0, token, creditor, amountOwed, Calling)
       /\ UNCHANGED <<debtActionCounter, pendingDebts, pendingDebtCounter, log, moved>>

\* settleDebt up to its external call: the require, the zeroing, the call.
\* settleDebt that reads the entry with its indices exchanged: the caller
\* settles what the other account owes the caller.
settleDebtOfOther(sender, token, creditor) ==
    /\ UNCHANGED <<view, bot, bills, units, users>>
    /\ LET amountOwed == debts[token][creditor][sender] IN
       IF ~(amountOwed > 0)
       THEN /\ lastCall' = Call("settleDebt", sender, 0, token, creditor, amountOwed, ErrNoDebt)
            /\ UNCHANGED <<chain, stack>>
       ELSE /\ Len(stack) < MaxDepth
            /\ debts' = [debts EXCEPT ![token][creditor][sender] = 0]
            /\ stack' = Append(stack, [token |-> token, debtor |-> creditor,
                                       creditor |-> sender, amountOwed |-> amountOwed,
                                       before |-> Snapshot])
            /\ lastCall' = Call("settleDebt", sender, 0, token, creditor, amountOwed, Calling)
            /\ UNCHANGED <<debtActionCounter, pendingDebts, pendingDebtCounter, log, moved>>

settleDebt(sender, token, creditor) ==
    /\ UNCHANGED <<view, bot, bills, units, users>>
    /\ LET amountOwed == debts[token][sender][creditor] IN
       IF ~(amountOwed > 0)
       THEN /\ lastCall' = Call("settleDebt", sender, 0, token, creditor, amountOwed, ErrNoDebt)
            /\ UNCHANGED <<chain, stack>>
       ELSE /\ Len(stack) < MaxDepth
            /\ debts' = [debts EXCEPT ![token][sender][creditor] = 0]
            /\ stack' = Append(stack, [token |-> token, debtor |-> sender,
                                       creditor |-> creditor, amountOwed |-> amountOwed,
                                       before |-> Snapshot])
            /\ lastCall' = Call("settleDebt", sender, 0, token, creditor, amountOwed, Calling)
            /\ UNCHANGED <<debtActionCounter, pendingDebts, pendingDebtCounter, log, moved>>

\* transferFrom returns, and DebtSettled is emitted only if it returned true.
transferReturnsQuiet(success) ==
    /\ UNCHANGED <<view, bot, bills, units, users>>
    /\ stack # <<>>
    /\ LET frame == stack[Len(stack)] IN
       /\ moved' = IF success
                   THEN Append(moved, [token |-> frame.token, from |-> frame.debtor,
                                       to |-> frame.creditor, amount |-> frame.amountOwed])
                   ELSE moved
       /\ log' = IF success
                 THEN Append(log, DebtSettled(frame.debtor, frame.creditor, frame.token,
                                              frame.amountOwed))
                 ELSE log
       /\ stack' = SubSeq(stack, 1, Len(stack) - 1)
       /\ lastCall' = Call("settleDebt", frame.debtor, 0, frame.token, frame.creditor,
                           frame.amountOwed, Ok)
       /\ UNCHANGED <<debts, debtActionCounter, pendingDebts, pendingDebtCounter>>

\* transferFrom returns (true: the tokens moved; false: they did not); the
\* returned value is not looked at, and settleDebt emits DebtSettled.
transferReturns(success) ==
    /\ UNCHANGED <<view, bot, bills, units, users>>
    /\ stack # <<>>
    /\ LET frame == stack[Len(stack)] IN
       /\ moved' = IF success
                   THEN Append(moved, [token |-> frame.token, from |-> frame.debtor,
                                       to |-> frame.creditor, amount |-> frame.amountOwed])
                   ELSE moved
       /\ log' = Append(log, DebtSettled(frame.debtor, frame.creditor, frame.token,
                                         frame.amountOwed))
       /\ stack' = SubSeq(stack, 1, Len(stack) - 1)
       /\ lastCall' = Call("settleDebt", frame.debtor, 0, frame.token, frame.creditor,
                           frame.amountOwed, Ok)
       /\ UNCHANGED <<debts, debtActionCounter, pendingDebts, pendingDebtCounter>>

\* transferFrom reverts: settleDebt reverts with it, back to the state at its entry.
transferReverts ==
    /\ UNCHANGED <<view, bot, bills, units>>
    /\ stack # <<>>
    /\ LET frame == stack[Len(stack)] IN
       /\ debts' = frame.before.debts
       /\ debtActionCounter' = frame.before.debtActionCounter
       /\ pendingDebts' = frame.before.pendingDebts
       /\ pendingDebtCounter' = frame.before.pendingDebtCounter
       /\ log' = frame.before.log
       /\ moved' = frame.before.moved
       /\ users' = frame.before.users
       /\ stack' = SubSeq(stack, 1, Len(stack) - 1)
       /\ lastCall' = Call("settleDebt", frame.debtor, 0, frame.token, frame.creditor,
                           frame.amountOwed, ErrTransfer)

\* The direct application of the netting step (addDebt was a public function
\* before the propose / confirm workflow was put in front of it).
applyDebt(token, debtor, creditor, amount, memo) ==
    /\ UNCHANGED <<view, bot, bills, units, users>>
    /\ LET result == addDebtResult(debts, token, debtor, creditor, amount) IN
       /\ debtActionCounter < MaxNetSteps
       /\ lastCall' = Call("addDebt", debtor, 0, token, creditor, amount, result)
       /\ IF result # Ok
          THEN UNCHANGED <<chain, stack>>
          ELSE /\ debts' = addDebt(debts, token, debtor, creditor, amount)
               /\ debtActionCounter' = debtActionCounter + 1
               /\ log' = Append(log, DebtAdded(debtActionCounter + 1, debtor, creditor,
                                               token, amount, memo))
               /\ UNCHANGED <<pendingDebts, pendingDebtCounter, moved, stack>>

\* ------------------------------------------------------------ registerUser
\* registerUser without its require on walletToDiscord.
registerUserResultAnyWallet(u, discordId, walletAddress) ==
    IF discordId = "" THEN ErrEmptyId
    ELSE IF walletAddress = ZeroAddress THEN ErrZeroWallet
    ELSE IF u.discordToWallet[discordId] # ZeroAddress THEN ErrIdRegistered
    ELSE Ok

\* The require outcome of registerUser on registry u.
registerUserResult(u, discordId, walletAddress) ==
    IF discordId = "" THEN ErrEmptyId
    ELSE IF walletAddress = ZeroAddress THEN ErrZeroWallet
    ELSE IF u.discordToWallet[discordId] # ZeroAddress THEN ErrIdRegistered
    ELSE IF u.walletToDiscord[walletAddress] # "" THEN ErrWalletRegistered
    ELSE Ok

registerUser(sender, discordId, walletAddress) ==
    /\ UNCHANGED <<view, bot, bills, units>>
    /\ LET result == registerUserResult(users, discordId, walletAddress) IN
       /\ lastCall' = Registration(sender, discordId, walletAddress, result)
       /\ IF result # Ok
          THEN UNCHANGED <<chain, stack>>
          ELSE /\ users' = [users EXCEPT !.discordToWallet[discordId] = walletAddress,
                                         !.walletToDiscord[walletAddress] = discordId]
               /\ log' = Append(log, UserRegistered(discordId, walletAddress))
               /\ UNCHANGED <<debts, debtActionCounter, pendingDebts,
                              pendingDebtCounter, moved, stack>>

\* ------------------------------------------------------------ specifications
\* Every call of the public interface, failing ones included, on one token.
Next ==
    \/ \E sender \in Senders, token \in CallTokens, debtor \in Accounts,
          amount \in Amounts, memo \in Memos :
            /\ pendingDebtCounter < MaxProposals
            /\ proposeDebt(sender, token, debtor, amount, memo)
    \/ \E sender \in Senders, pendingDebtId \in CallIds : confirmDebt(sender, pendingDebtId)
    \/ \E sender \in Senders, pendingDebtId \in CallIds : rejectDebt(sender, pendingDebtId)
    \/ \E sender \in Senders, token \in CallTokens, creditor \in Accounts :
            settleDebt(sender, token, creditor)
    \/ \E success \in BOOLEAN : transferReturns(success)
    \/ transferReverts

Spec == Init /\ [][Next]_vars

\* A call that did not revert (settleDebt: that reached its external call).
Succeeded == lastCall'.result \in {Ok, Calling}

\* The calls that take effect, on every token: a reverted call changes nothing
\* but lastCall, so these are the steps that change the ledger and the log.
NextLedger ==
    \/ \E sender \in Senders, token \in Tokens, debtor \in Accounts,
          amount \in LedgerAmounts, memo \in Memos :
            /\ pendingDebtCounter < MaxLedgerProposals
            /\ proposeDebt(sender, token, debtor, amount, memo)
            /\ Succeeded
    \/ \E sender \in Senders, pendingDebtId \in Ids :
            confirmDebt(sender, pendingDebtId) /\ Succeeded
    \/ \E sender \in Senders, pendingDebtId \in Ids :
            rejectDebt(sender, pendingDebtId) /\ Succeeded
    \/ \E sender \in Senders, token \in Tokens, creditor \in Accounts :
            settleDebt(sender, token, creditor) /\ Succeeded
    \/ \E success \in BOOLEAN : transferReturns(success)
    \/ transferReverts

SpecLedger == Init /\ [][NextLedger]_vars

\* Sequences of netting steps between one pair of accounts on one token.
NextNet ==
    \E debtor \in NetAccounts, creditor \in NetAccounts, amount \in NetAmounts,
       memo \in Memos :
        applyDebt("T1", debtor, creditor, amount, memo)

SpecNet == Init /\ [][NextNet]_vars

\* A contract debtor M and its creditor A: A proposes at top level, M confirms,
\* rejects and settles, at top level and from inside its own transfers;
\* settleDebt is called whether or not there is a debt.
NextReentry ==
    \/ \E sender \in Senders \cap {"A"}, amount \in ReentryAmounts, memo \in Memos :
            /\ pendingDebtCounter < MaxLedgerProposals
            /\ proposeDebt(sender, "T1", "M", amount, memo)
    \/ \E sender \in Senders \cap {"M"}, pendingDebtId \in Ids :
            confirmDebt(sender, pendingDebtId) /\ Succeeded
    \/ \E sender \in Senders \cap {"A", "M"}, pendingDebtId \in Ids :
            rejectDebt(sender, pendingDebtId) /\ Succeeded
    \/ \E sender \in Senders \cap {"M"} : settleDebt(sender, "T1", "A")
    \/ \E success \in BOOLEAN : transferReturns(success)
    \/ transferReverts

SpecReentry == Init /\ [][NextReentry]_vars

\* The calls that take effect between two accounts A and B on one token,
\* proposals of amount 0 among them, with one proposal more than in Spec.
NextPair ==
    \/ \E sender \in Senders \cap PairAccounts, debtor \in PairAccounts,
          amount \in Amounts, memo \in Memos :
            /\ pendingDebtCounter < MaxLedgerProposals
            /\ proposeDebt(sender, "T1", debtor, amount, memo)
            /\ Succeeded
    \/ \E sender \in Senders \cap PairAccounts, pendingDebtId \in Ids :
            confirmDebt(sender, pendingDebtId) /\ Succeeded
    \/ \E sender \in Senders \cap PairAccounts, pendingDebtId \in Ids :
            rejectDebt(sender, pendingDebtId) /\ Succeeded
    \/ \E sender \in Senders \cap PairAccounts, creditor \in PairAccounts :
            settleDebt(sender, "T1", creditor) /\ Succeeded
    \/ \E success \in BOOLEAN : transferReturns(success)
    \/ transferReverts

SpecPair == Init /\ [][NextPair]_vars

\* Every proposeDebt and confirmDebt call of two accounts A and B on one
\* token, failing ones included, beside the rejectDebt calls that take
\* effect; a failed proposeDebt does not count towards the bound.
NextCalls ==
    \/ \E sender \in Senders \cap PairAccounts, debtor \in PairAccounts,
          amount \in Amounts, memo \in Memos :
            /\ debtor = sender \/ pendingDebtCounter < MaxLedgerProposals
            /\ proposeDebt(sender, "T1", debtor, amount, memo)
    \/ \E sender \in Senders \cap PairAccounts, pendingDebtId \in Ids :
            confirmDebt(sender, pendingDebtId)
    \/ \E sender \in Senders \cap PairAccounts, pendingDebtId \in Ids :
            rejectDebt(sender, pendingDebtId) /\ Succeeded

SpecCalls == Init /\ [][NextCalls]_vars

\* ------------------------------------------------------------ reading the log
\* The positions of the log that resolve proposal id.
Resolutions(id) ==
    {i \in DOMAIN log : /\ log[i].type \in {"DebtConfirmed", "DebtRejected"}
                        /\ log[i].pendingDebtId = id}

\* The DebtProposed event of proposal id was emitted with this debtor / creditor.
ProposedWith(id, debtor, creditor) ==
    \E i \in DOMAIN log : /\ log[i].type = "DebtProposed"
                          /\ log[i].pendingDebtId = id
                          /\ log[i].debtor = debtor
                          /\ log[i].creditor = creditor

\* Sum of the DebtAdded amounts of events for token with debtor a and creditor b,
\* minus those with debtor b and creditor a.
RECURSIVE SignedSum(_, _, _, _)
SignedSum(events, token, a, b) ==
    IF events = <<>> THEN 0
    ELSE LET e == Head(events)
             rest == SignedSum(Tail(events), token, a, b)
         IN  IF e.type = "DebtAdded" /\ e.token = token
             THEN IF e.debtor = a /\ e.creditor = b THEN rest + e.amount
                  ELSE IF e.debtor = b /\ e.creditor = a THEN rest - e.amount
                  ELSE rest
             ELSE rest

\* ------------------------------------------------------------ the views
\* isDebtResolved of the client: a DebtConfirmed or a DebtRejected event of
\* the id is among the events queried.
isDebtResolvedConfirmedOnly(events, pendingDebtId) ==
    \E i \in DOMAIN events : events[i] = DebtConfirmed(pendingDebtId)

isDebtResolved(events, pendingDebtId) ==
    \E i \in DOMAIN events :
        \/ events[i] = DebtConfirmed(pendingDebtId)
        \/ events[i] = DebtRejected(pendingDebtId)

\* The DebtProposed events of the two users and the token, in log order.
RECURSIVE relevantEvents(_, _, _, _)
relevantEvents(events, token, user1, user2) ==
    IF events = <<>> THEN <<>>
    ELSE LET e == Head(events)
             rest == relevantEvents(Tail(events), token, user1, user2)
         IN  IF /\ e.type = "DebtProposed"
                /\ \/ e.creditor = user1 /\ e.debtor = user2
                   \/ e.creditor = user2 /\ e.debtor = user1
                /\ e.token = token
             THEN <<e>> \o rest
             ELSE rest

\* Those of the proposals that resolved, a set of ids, does not hold.
RECURSIVE pendingDebtEvents(_, _)
pendingDebtEvents(proposals, resolved) ==
    IF proposals = <<>> THEN <<>>
    ELSE IF Head(proposals).pendingDebtId \in resolved
         THEN pendingDebtEvents(Tail(proposals), resolved)
         ELSE <<Head(proposals)>> \o pendingDebtEvents(Tail(proposals), resolved)

\* Sum of the amounts of the proposals with this debtor and creditor.
RECURSIVE pendingSum(_, _, _)
pendingSum(proposals, debtor, creditor) ==
    IF proposals = <<>> THEN 0
    ELSE LET e == Head(proposals)
             rest == pendingSum(Tail(proposals), debtor, creditor)
         IN  IF e.debtor = debtor /\ e.creditor = creditor THEN rest + e.amount
             ELSE rest

\* The reply of the balance command for caller user1 about user2, from what
\* it read: the two ledger entries and the unresolved proposals of the pair.
balanceMessage(debtOwed, debtOwing, pending, user1, user2) ==
    LET pendingOwed == pendingSum(pending, user1, user2)
        pendingOwing == pendingSum(pending, user2, user1)
    IN  [youOweThem |-> debtOwing, theyOweYou |-> debtOwed,
         youOweThemPending |-> pendingOwing, theyOweYouPending |-> pendingOwed]

\* The balance command run on one state of the chain: ledger d, log events.
balance(d, events, token, user1, user2) ==
    LET relevant == relevantEvents(events, token, user1, user2)
        resolved == {id \in Ids : isDebtResolved(events, id)}
    IN  balanceMessage(d[token][user1][user2], d[token][user2][user1],
                       pendingDebtEvents(relevant, resolved), user1, user2)

\* The balance command as the client runs it: every await is a call to the
\* node that reads the chain as it is at that moment, and transactions commit
\* between the calls.  from, ledger and to are the lengths of the log at the
\* first read, at the second read and at the last one.
\* await contract.debts(token, user1, user2)
balanceDebtOwed(token, user1, user2) ==
    /\ view.pc = "idle"
    /\ view' = [view EXCEPT !.pc = "debtOwing",
                            !.debtOwed = debts[token][user1][user2],
                            !.from = Len(log)]
    /\ UNCHANGED <<chain, stack, lastCall, bot, bills, units>>

\* await contract.debts(token, user2, user1)
balanceDebtOwing(token, user1, user2) ==
    /\ view.pc = "debtOwing"
    /\ view' = [view EXCEPT !.pc = "queryFilter",
                            !.debtOwing = debts[token][user2][user1],
                            !.ledger = Len(log)]
    /\ UNCHANGED <<chain, stack, lastCall, bot, bills, units>>

\* The command after its last read: the sums and the reply.
balanceDone(v, token, user1, user2) ==
    [v EXCEPT !.pc = "done",
              !.reply = balanceMessage(v.debtOwed, v.debtOwing, v.pendingDebtEvents,
                                       user1, user2)]

\* await contract.queryFilter(contract.filters.DebtProposed()), and the filter
\* by users and token; with nothing to resolve the reply follows at once.
balanceQueryFilter(token, user1, user2) ==
    /\ view.pc = "queryFilter"
    /\ LET relevant == relevantEvents(log, token, user1, user2)
           v == [view EXCEPT !.pc = "isDebtResolved", !.relevantEvents = relevant,
                             !.to = Len(log)]
       IN  view' = IF relevant = <<>> THEN balanceDone(v, token, user1, user2) ELSE v
    /\ UNCHANGED <<chain, stack, lastCall, bot, bills, units>>

\* await isDebtResolved(pendingDebtId) for the next relevant event; after the
\* last one the reply follows.
balanceIsDebtResolved(token, user1, user2) ==
    /\ view.pc = "isDebtResolved"
    /\ LET event == Head(view.relevantEvents)
           v == [view EXCEPT !.relevantEvents = Tail(@),
                             !.pendingDebtEvents =
                                 IF isDebtResolved(log, event.pendingDebtId)
                                 THEN @
                                 ELSE Append(@, event),
                             !.to = Len(log)]
       IN  view' = IF v.relevantEvents = <<>>
                   THEN balanceDone(v, token, user1, user2)
                   ELSE v
    /\ UNCHANGED <<chain, stack, lastCall, bot, bills, units>>

\* A runs the balance command about B on T1 once, while A and B propose,
\* confirm and reject (the calls that take effect).
NextView ==
    \/ \E sender \in PairAccounts, debtor \in PairAccounts, amount \in ViewAmounts,
          memo \in Memos :
            /\ pendingDebtCounter < MaxLedgerProposals
            /\ proposeDebt(sender, "T1", debtor, amount, memo)
            /\ Succeeded
    \/ \E sender \in PairAccounts, pendingDebtId \in Ids :
            confirmDebt(sender, pendingDebtId) /\ Succeeded
    \/ \E sender \in PairAccounts, pendingDebtId \in Ids :
            rejectDebt(sender, pendingDebtId) /\ Succeeded
    \/ balanceDebtOwed("T1", "A", "B")
    \/ balanceDebtOwing("T1", "A", "B")
    \/ balanceQueryFilter("T1", "A", "B")
    \/ balanceIsDebtResolved("T1", "A", "B")

SpecView == Init /\ [][NextView]_vars

\* ------------------------------------------------------------ add-debt
\* The add-debt command (executeProposal) as the client runs it: it sends a
\* proposeDebt transaction from the creditor's wallet, awaits its receipt,
\* then awaits a read of pendingDebtCounter and sends the debtor a message whose
\* Agree / Disagree controls carry the value read.  The automated proposals of
\* a bill analysis follow the same three steps from the payer's wallet.
\* creditorContract.proposeDebt(tokenAddress, debtorWallet.address, amount, memo)
executeProposal(creditor, token, debtor, amount, memo) ==
    /\ bot.pc = "idle"
    /\ bot' = [NoCommand EXCEPT !.pc = "proposeDebt", !.creditor = creditor,
                                !.debtor = debtor, !.token = token, !.amount = amount,
                                !.memo = memo, !.from = Len(log)]
    /\ UNCHANGED <<chain, stack, lastCall, view, bills, units>>

\* The positions of the log at which the command's transaction emitted its event.
Receipt ==
    {i \in (bot.from + 1)..Len(log) :
        log[i].type = "DebtProposed" /\ log[i].creditor = bot.creditor}

\* The command's transaction is mined.
executeProposalMined ==
    /\ bot.pc = "proposeDebt"
    /\ Receipt = {}
    /\ proposeDebt(bot.creditor, bot.token, bot.debtor, bot.amount, bot.memo)

\* await tx.wait(): the receipt of the mined transaction arrives.
executeProposalWait ==
    /\ bot.pc = "proposeDebt"
    /\ Receipt # {}
    /\ bot' = [bot EXCEPT !.pc = "pendingDebtCounter",
                          !.tx = log[CHOOSE i \in Receipt : TRUE].pendingDebtId]
    /\ UNCHANGED <<chain, stack, lastCall, view, bills, units>>

\* newCounter = await contract.pendingDebtCounter(), and the message to the
\* debtor with the controls agree-debt:newCounter and disagree-debt:newCounter.
executeProposalSend ==
    /\ bot.pc = "pendingDebtCounter"
    /\ bot' = [bot EXCEPT !.pc = "sent", !.pendingDebtId = pendingDebtCounter,
                          !.content = "New Debt Proposal", !.components = TRUE]
    /\ UNCHANGED <<chain, stack, lastCall, view, bills, units>>

\* Creditor A runs the add-debt command against debtor B on T1 once; A's wallet
\* is used by the command only, while B and M propose to each other, and
\* everyone confirms and rejects (the calls that take effect).
NextBot ==
    \/ \E amount \in ViewAmounts, memo \in Memos :
            executeProposal("A", "T1", "B", amount, memo)
    \/ pendingDebtCounter < MaxLedgerProposals /\ executeProposalMined
    \/ executeProposalWait
    \/ executeProposalSend
    \/ \E sender \in Accounts \ {"A"}, debtor \in Accounts \ {"A"},
          amount \in ViewAmounts, memo \in Memos :
            /\ pendingDebtCounter < MaxLedgerProposals
            /\ proposeDebt(sender, "T1", debtor, amount, memo)
            /\ Succeeded
    \/ \E sender \in Accounts, pendingDebtId \in Ids :
            confirmDebt(sender, pendingDebtId) /\ Succeeded
    \/ \E sender \in Accounts, pendingDebtId \in Ids :
            rejectDebt(sender, pendingDebtId) /\ Succeeded

SpecBot == Init /\ [][NextBot]_vars

\* ------------------------------------------------------------ the controls
\* The Agree control of the debtor's message (agree-debt:pendingDebtId).  The
\* handler sends confirmDebt from the debtor's wallet, awaits the receipt and
\* updates the message.  A call that would revert is refused when it is sent
\* (the gas estimate runs it on the current state), so it is never mined.
\* The wallet cannot pay for gas: the message keeps its controls.
agreeDebtInsufficientFunds ==
    /\ bot.pc = "sent" /\ bot.components
    /\ bot' = [bot EXCEPT !.content = "Insufficient funds to confirm debt"]
    /\ UNCHANGED <<chain, stack, lastCall, view, bills, units>>

\* userContract.confirmDebt(pendingDebtId) throws: every other error takes the
\* controls off the message.
agreeDebtFails ==
    /\ bot.pc = "sent" /\ bot.components
    /\ LET pending == pendingDebts[bot.pendingDebtId]
           result == confirmDebtResult(bot.debtor, bot.pendingDebtId)
       IN  /\ result # Ok
           /\ lastCall' = Call("confirmDebt", bot.debtor, bot.pendingDebtId, pending.token,
                               pending.creditor, pending.amount, result)
    /\ bot' = [bot EXCEPT !.content = "Failed to confirm debt", !.components = FALSE]
    /\ UNCHANGED <<chain, stack, view, bills, units>>

\* userContract.confirmDebt(pendingDebtId) is accepted: the transaction is sent.
agreeDebt ==
    /\ bot.pc = "sent" /\ bot.components
    /\ confirmDebtResult(bot.debtor, bot.pendingDebtId) = Ok
    /\ bot' = [bot EXCEPT !.pc = "confirmDebt", !.from = Len(log)]
    /\ UNCHANGED <<chain, stack, lastCall, view, bills, units>>

\* The positions of the log at which the handler's transaction emitted DebtConfirmed.
AgreeReceipt ==
    {i \in (bot.from + 1)..Len(log) : log[i] = DebtConfirmed(bot.pendingDebtId)}

\* The handler's transaction is mined.
agreeDebtMined ==
    /\ bot.pc = "confirmDebt"
    /\ confirmDebtResult(bot.debtor, bot.pendingDebtId) = Ok
    /\ confirmDebt(bot.debtor, bot.pendingDebtId)

\* await tx.wait() returns: the message becomes the confirmation, without controls.
agreeDebtWait ==
    /\ bot.pc = "confirmDebt"
    /\ AgreeReceipt # {}
    /\ bot' = [bot EXCEPT !.pc = "sent", !.content = "Debt confirmed and added to ledger!",
                          !.components = FALSE]
    /\ UNCHANGED <<chain, stack, lastCall, view, bills, units>>

\* await tx.wait() throws, the proposal having been resolved before the
\* transaction was mined: the controls are taken off.
agreeDebtReverted ==
    /\ bot.pc = "confirmDebt"
    /\ AgreeReceipt = {}
    /\ confirmDebtResult(bot.debtor, bot.pendingDebtId) # Ok
    /\ bot' = [bot EXCEPT !.pc = "sent", !.content = "Failed to confirm debt",
                          !.components = FALSE]
    /\ UNCHANGED <<chain, stack, lastCall, view, bills, units>>

\* The Disagree control, its modal submitted: rejectDebt from the debtor's
\* wallet; the reply is a message of its own, and the proposal's message is
\* left as it is.
disagreeDebt ==
    /\ bot.pc = "sent" /\ bot.components
    /\ rejectDebt(bot.debtor, bot.pendingDebtId)

\* The amounts given to the add-debt command.
CommandAmounts == {0, 1}

\* Creditor A runs the add-debt command against debtor B on T1 once, and B
\* uses the controls of the message; M proposes to B, and A rejects directly.
NextControls ==
    \/ \E amount \in CommandAmounts, memo \in Memos :
            executeProposal("A", "T1", "B", amount, memo)
    \/ pendingDebtCounter < MaxLedgerProposals /\ executeProposalMined
    \/ executeProposalWait
    \/ executeProposalSend
    \/ agreeDebtInsufficientFunds
    \/ agreeDebtFails
    \/ agreeDebt
    \/ agreeDebtMined
    \/ agreeDebtWait
    \/ agreeDebtReverted
    \/ disagreeDebt
    \/ \E amount \in ViewAmounts, memo \in Memos :
            /\ pendingDebtCounter < MaxLedgerProposals
            /\ proposeDebt("M", "T1", "B", amount, memo)
    \/ \E pendingDebtId \in Ids :
            rejectDebt("A", pendingDebtId) /\ Succeeded

SpecControls == Init /\ [][NextControls]_vars

\* ------------------------------------------------------------ bill analyses
\* calculateTotalDebts: per expense, the participants other than the payer.
RECURSIVE calculateTotalDebts(_)
calculateTotalDebts(expenses) ==
    IF expenses = <<>> THEN 0
    ELSE LET expense == Head(expenses) IN
         Cardinality({q \in DOMAIN expense.participants :
                         expense.participants[q] # expense.payer})
             + calculateTotalDebts(Tail(expenses))

\* presentBillAnalysisForConfirmation up to its edit of the response message:
\* the message shows the analysis and the Confirm and Cancel buttons.
presentBillAnalysisForConfirmation(requesterId, analysis) ==
    /\ bills.messages < MaxAnalyses
    /\ bills.editing = NoAnalysis
    /\ bills' = [bills EXCEPT !.messages = @ + 1,
                              !.components[bills.messages + 1] = TRUE,
                              !.editing = [analysis |-> analysis,
                                           requesterId |-> requesterId]]
    /\ UNCHANGED <<chain, stack, lastCall, view, bot, units>>

\* presentBillAnalysisForConfirmation after the edit, without its setTimeout:
\* the entry is stored and no timer is started.
pendingBillAnalysesSetForever ==
    /\ bills.editing # NoAnalysis
    /\ bills' = [bills EXCEPT !.pendingBillAnalyses[bills.messages] = bills.editing,
                              !.editing = NoAnalysis]
    /\ UNCHANGED <<chain, stack, lastCall, view, bot, units>>

\* presentBillAnalysisForConfirmation after the edit: the entry is stored
\* under the message's id and the five-minute timer is started.
pendingBillAnalysesSet ==
    /\ bills.editing # NoAnalysis
    /\ bills' = [bills EXCEPT !.pendingBillAnalyses[bills.messages] = bills.editing,
                              !.timers = @ \cup {bills.messages},
                              !.editing = NoAnalysis]
    /\ UNCHANGED <<chain, stack, lastCall, view, bot, units>>

\* The timer's callback: the entry of the message is deleted.
pendingBillAnalysesTimeout(m) ==
    /\ m \in bills.timers
    /\ bills' = [bills EXCEPT !.pendingBillAnalyses[m] = NoAnalysis,
                              !.timers = @ \ {m}]
    /\ UNCHANGED <<chain, stack, lastCall, view, bot, units>>

\* The handlers of the clicks are kept as a bag: two clicks of the same user
\* on the same button are two handlers. Resumed is the bag after handler h
\* has gone on to be handler after.
Resumed(h, after) == (bills.handlers (-) SetToBag({h})) (+) SetToBag({after})

\* A user clicks a button of the message while the message shows its
\* buttons; the event reaches the client some time later.
interactionCreate(m, user, customId) ==
    /\ bills.components[m]
    /\ BagCardinality(bills.handlers) < MaxClicks
    /\ bills' = [bills EXCEPT !.handlers =
                    @ (+) SetToBag({[message |-> m, user |-> user,
                                     customId |-> customId,
                                     pc |-> "interaction", reply |-> "", ran |-> FALSE,
                                     analysis |-> <<>>, e |-> 0, p |-> 0,
                                     success |-> 0, failed |-> 0, tx |-> 0]})]
    /\ UNCHANGED <<chain, stack, lastCall, view, bot, units>>

\* handleBillConfirmation without its comparison with requesterId.
handleBillConfirmationAnyUser(h) ==
    /\ BagIn(h, bills.handlers)
    /\ h.pc = "interaction"
    /\ LET pendingAnalysis == bills.pendingBillAnalyses[h.message] IN
       bills' = [bills EXCEPT !.handlers = Resumed(h,
               IF pendingAnalysis = NoAnalysis
               THEN [h EXCEPT !.pc = "done", !.reply = "Analysis expired or not found"]
               ELSE [h EXCEPT !.pc = "update",
                              !.analysis = pendingAnalysis.analysis])]
    /\ UNCHANGED <<chain, stack, lastCall, view, bot, units>>

\* handleBillConfirmation up to its first await: the look-up of the entry and
\* the comparison of the clicking user with the requester.
handleBillConfirmation(h) ==
    /\ BagIn(h, bills.handlers)
    /\ h.pc = "interaction"
    /\ LET pendingAnalysis == bills.pendingBillAnalyses[h.message] IN
       bills' = [bills EXCEPT !.handlers = Resumed(h,
               IF pendingAnalysis = NoAnalysis
               THEN [h EXCEPT !.pc = "done", !.reply = "Analysis expired or not found"]
               ELSE IF h.user # pendingAnalysis.requesterId
               THEN [h EXCEPT !.pc = "done", !.reply = "Permission denied"]
               ELSE [h EXCEPT !.pc = "update",
                              !.analysis = pendingAnalysis.analysis])]
    /\ UNCHANGED <<chain, stack, lastCall, view, bot, units>>

\* The head of createAutomatedDebtProposals' outer loop at expense e, or the
\* summary when the expenses are exhausted.
AtExpense(h, e) ==
    IF e <= Len(h.analysis)
    THEN [h EXCEPT !.e = e, !.p = 0, !.pc = "payer"]
    ELSE [h EXCEPT !.pc = "summary"]

\* The inner loop from participant p on: the next participant that is not the
\* payer, or the next expense.
AtParticipant(h, p) ==
    LET expense == h.analysis[h.e]
        rest == {q \in p..Len(expense.participants) :
                    expense.participants[q] # expense.payer}
    IN  IF rest = {}
        THEN AtExpense(h, h.e + 1)
        ELSE [h EXCEPT !.p = CHOOSE q \in rest : \A r \in rest : q <= r,
                       !.pc = "participant"]

\* interaction.update has taken effect and the handler goes on: the buttons
\* are gone; cancel-bills deletes the entry, confirm-bills enters
\* createAutomatedDebtProposals.
interactionUpdate(h) ==
    /\ BagIn(h, bills.handlers)
    /\ h.pc = "update"
    /\ IF h.customId = "cancel-bills"
       THEN bills' = [bills EXCEPT
                        !.components[h.message] = FALSE,
                        !.pendingBillAnalyses[h.message] = NoAnalysis,
                        !.handlers = Resumed(h, [h EXCEPT !.pc = "done",
                                                 !.reply = "Bill analysis cancelled"])]
       ELSE bills' = [bills EXCEPT
                        !.components[h.message] = FALSE,
                        !.handlers = Resumed(h, AtExpense([h EXCEPT !.ran = TRUE,
                                                 !.reply = "Creating debt proposals"], 1))]
    /\ UNCHANGED <<chain, stack, lastCall, view, bot, units>>

\* createAutomatedDebtProposals at the payer of an expense: findUserByTag and
\* getWalletForDiscordId; when either finds nothing, one failure is counted
\* and the expense is skipped.
findPayer(h, found) ==
    /\ BagIn(h, bills.handlers)
    /\ h.pc = "payer"
    /\ bills' = [bills EXCEPT !.handlers = Resumed(h,
                    IF found THEN AtParticipant(h, 1)
                    ELSE AtExpense([h EXCEPT !.failed = @ + 1], h.e + 1))]
    /\ UNCHANGED <<chain, stack, lastCall, view, bot, units>>

\* createAutomatedDebtProposals at a participant who is not found, is not
\* registered, or whose proposal throws: one failure is counted.
participantFails(h) ==
    /\ BagIn(h, bills.handlers)
    /\ h.pc = "participant"
    /\ bills' = [bills EXCEPT !.handlers = Resumed(h,
                    AtParticipant([h EXCEPT !.failed = @ + 1], h.p + 1))]
    /\ UNCHANGED <<chain, stack, lastCall, view, bot, units>>

\* createAutomatedDebtProposals at a registered participant: proposeDebt is
\* sent from the payer's wallet.
payerContractProposeDebt(h) ==
    /\ BagIn(h, bills.handlers)
    /\ h.pc = "participant"
    /\ Len(bills.txs) < MaxLedgerProposals
    /\ LET expense == h.analysis[h.e] IN
       bills' = [bills EXCEPT
                    !.txs = Append(@, [creditor |-> expense.payer,
                                       debtor |-> expense.participants[h.p],
                                       token |-> "T1", amount |-> expense.amount,
                                       memo |-> expense.description]),
                    !.handlers = Resumed(h, [h EXCEPT !.pc = "proposeDebt",
                                                      !.tx = Len(bills.txs) + 1])]
    /\ UNCHANGED <<chain, stack, lastCall, view, bot, units>>

\* The oldest transaction of the payer's wallet that is not mined yet is
\* mined (a wallet's transactions are mined in the order of their nonces).
payerContractMined ==
    /\ pendingDebtCounter < Len(bills.txs)
    /\ LET tx == bills.txs[pendingDebtCounter + 1] IN
       proposeDebt(tx.creditor, tx.token, tx.debtor, tx.amount, tx.memo)

\* tx.wait() returns: the participant is sent the proposal, one success is
\* counted.
payerContractWait(h) ==
    /\ BagIn(h, bills.handlers)
    /\ h.pc = "proposeDebt"
    /\ pendingDebtCounter >= h.tx
    /\ bills' = [bills EXCEPT !.handlers = Resumed(h,
                    AtParticipant([h EXCEPT !.success = @ + 1], h.p + 1))]
    /\ UNCHANGED <<chain, stack, lastCall, view, bot, units>>

\* createAutomatedDebtProposals sends its summary and returns, and
\* handleBillConfirmation deletes the entry.
createAutomatedDebtProposalsReturns(h) ==
    /\ BagIn(h, bills.handlers)
    /\ h.pc = "summary"
    /\ bills' = [bills EXCEPT
                    !.pendingBillAnalyses[h.message] = NoAnalysis,
                    !.handlers = Resumed(h, [h EXCEPT !.pc = "done",
                                     !.reply = "Automated Debt Proposals Created"])]
    /\ UNCHANGED <<chain, stack, lastCall, view, bot, units>>

\* The two buttons of an analysis message.
BillButtons == {"confirm-bills", "cancel-bills"}

\* The handlers that have been started.
Handlers == BagToSet(bills.handlers)

\* Analyses are presented, their buttons are clicked by A and B, the timers
\* fire, and the payer's proposals are mined.
NextBills ==
    \/ \E requesterId \in BillUsers, analysis \in BillAnalyses :
            presentBillAnalysisForConfirmation(requesterId, analysis)
    \/ pendingBillAnalysesSet
    \/ \E m \in Messages : pendingBillAnalysesTimeout(m)
    \/ \E m \in Messages, user \in BillUsers, customId \in BillButtons :
            interactionCreate(m, user, customId)
    \/ \E h \in Handlers : handleBillConfirmation(h)
    \/ \E h \in Handlers : interactionUpdate(h)
    \/ \E h \in Handlers, found \in BOOLEAN : findPayer(h, found)
    \/ \E h \in Handlers : participantFails(h)
    \/ \E h \in Handlers : payerContractProposeDebt(h)
    \/ payerContractMined
    \/ \E h \in Handlers : payerContractWait(h)
    \/ \E h \in Handlers : createAutomatedDebtProposalsReturns(h)

SpecBills == Init /\ [][NextBills]_vars

\* The timer of setTimeout fires: the client's event loop runs every callback
\* whose delay has passed.
SpecBillsFair ==
    SpecBills /\ \A m \in Messages : WF_vars(pendingBillAnalysesTimeout(m))

\* ------------------------------------------------------------ the registry
\* Every registerUser call, failing ones included: any sender, the empty id
\* and the zero address among the arguments.
NextRegister ==
    \E sender \in Accounts, discordId \in DiscordIds \cup {""},
       walletAddress \in Accounts \cup {ZeroAddress} :
        registerUser(sender, discordId, walletAddress)

SpecRegister == Init /\ [][NextRegister]_vars

\* ------------------------------------------------------------ token amounts
\* A string is the sequence of its characters; a bigint is the sequence of
\* its decimal digits, most significant first, with "-" in front of a
\* negative one. The amounts of the model are far below the 512 bits at
\* which parseUnits reports an overflow.
Digit == {"0", "1", "2", "3", "4", "5", "6", "7", "8", "9"}
Zeros(n) == [i \in 1..n |-> "0"]

\* The digits without leading zeros, keeping one digit.
RECURSIVE StripLeadingZeros(_)
StripLeadingZeros(digits) ==
    IF Len(digits) > 1 /\ digits[1] = "0"
    THEN StripLeadingZeros(Tail(digits))
    ELSE digits

\* The digits without trailing zeros, keeping one digit.
RECURSIVE StripTrailingZeros(_)
StripTrailingZeros(digits) ==
    IF Len(digits) > 1 /\ digits[Len(digits)] = "0"
    THEN StripTrailingZeros(SubSeq(digits, 1, Len(digits) - 1))
    ELSE digits

\* What the functions throw: in place of a TokenInfo, and in place of a bigint.
ErrInvalidToken == [address |-> "", decimals |-> 0, symbol |-> "Invalid token"]
ErrAmountFormat == <<"Invalid amount format">>

\* The addresses among the token identifiers: USDC's, ETH's, and one of no
\* supported token.
UsdcAddress == "0x75faf114eafb1BDbe2F0316DF893fd58CE46AA4d"
EthAddress == "0x0000000000000000000000000000000000000000"
OtherAddress == "0x1111111111111111111111111111111111111111"
isAddress(tokenIdentifier) ==
    tokenIdentifier \in {UsdcAddress, EthAddress, OtherAddress}

SUPPORTED_TOKENS ==
    [ETH |-> [address |-> EthAddress, decimals |-> EthDecimals],
     USDC |-> [address |-> UsdcAddress, decimals |-> UsdcDecimals]]

\* The token identifiers given to the commands.
TokenIdentifiers ==
    {"ETH", "USDC", "usdc", "DOGE", UsdcAddress, EthAddress, OtherAddress}

\* String.prototype.toUpperCase on the identifiers that are not addresses.
toUpperCase(tokenIdentifier) ==
    IF tokenIdentifier = "usdc" THEN "USDC" ELSE tokenIdentifier

\* tokenIdentifier.slice(0, 8) + '...' on the addresses.
ShortSymbol(tokenIdentifier) ==
    IF tokenIdentifier = UsdcAddress THEN "0x75faf1..."
    ELSE IF tokenIdentifier = EthAddress THEN "0x000000..."
    ELSE "0x111111..."

\* parseTokenIdentifier: an address first, then a supported symbol.
parseTokenIdentifier(tokenIdentifier) ==
    LET upperTokenIdentifier == toUpperCase(tokenIdentifier) IN
    IF isAddress(tokenIdentifier)
    THEN [address |-> tokenIdentifier, decimals |-> DefaultDecimals,
          symbol |-> ShortSymbol(tokenIdentifier)]
    ELSE IF upperTokenIdentifier \in DOMAIN SUPPORTED_TOKENS
    THEN [address |-> SUPPORTED_TOKENS[upperTokenIdentifier].address,
          decimals |-> SUPPORTED_TOKENS[upperTokenIdentifier].decimals,
          symbol |-> upperTokenIdentifier]
    ELSE ErrInvalidToken

\* ethers.parseUnits: the value matches -?[0-9]*\.?[0-9]* with at least one
\* digit; the fraction is padded with zeros to the decimals, and digits beyond
\* the decimals must be zeros.
parseUnits(value, decimals) ==
    LET negative == value # <<>> /\ value[1] = "-"
        body == IF negative THEN Tail(value) ELSE value
        dots == {i \in DOMAIN body : body[i] = "."}
        dot == IF dots = {} THEN Len(body) + 1 ELSE CHOOSE i \in dots : TRUE
        whole == IF dot = 1 THEN <<"0">> ELSE SubSeq(body, 1, dot - 1)
        fraction == SubSeq(body, dot + 1, Len(body))
        padded == IF Len(fraction) < decimals
                  THEN fraction \o Zeros(decimals - Len(fraction))
                  ELSE fraction
        digits == StripLeadingZeros(whole \o SubSeq(padded, 1, decimals))
    IN  IF \/ Cardinality(dots) > 1
           \/ \E i \in DOMAIN body : body[i] \notin Digit \cup {"."}
           \/ Len(body) - Cardinality(dots) = 0
        THEN ErrAmountFormat
        ELSE IF \E i \in (decimals + 1)..Len(padded) : padded[i] # "0"
        THEN ErrAmountFormat
        ELSE IF negative /\ digits # <<"0">> THEN <<"-">> \o digits
        ELSE digits

\* parseTokenAmount: parseUnits with the token's decimals; every failure of
\* these amounts is reported as an invalid format.
parseTokenAmount(amountRaw, tokenInfo) == parseUnits(amountRaw, tokenInfo.decimals)

\* formatUnits that does not pad a short amount with zeros on the left.
formatUnitsUnpadded(amount, decimals) ==
    LET negative == amount[1] = "-"
        str == IF negative THEN Tail(amount) ELSE amount
        index == IF Len(str) > decimals THEN Len(str) - decimals ELSE 0
        whole == IF index = 0 THEN <<"0">> ELSE SubSeq(str, 1, index)
        formatted == whole \o <<".">>
                         \o StripTrailingZeros(SubSeq(str, index + 1, Len(str)))
    IN  IF negative THEN <<"-">> \o formatted ELSE formatted

\* ethers.formatUnits: the digits are padded on the left to one more than the
\* decimals, the point is put before the last decimals digits, and zeros are
\* stripped at both ends, one digit staying on either side of the point.
formatUnits(amount, decimals) ==
    LET negative == amount[1] = "-"
        digits == IF negative THEN Tail(amount) ELSE amount
        str == IF Len(digits) <= decimals
               THEN Zeros(decimals + 1 - Len(digits)) \o digits
               ELSE digits
        index == Len(str) - decimals
        formatted == StripLeadingZeros(SubSeq(str, 1, index)) \o <<".">>
                         \o StripTrailingZeros(SubSeq(str, index + 1, Len(str)))
    IN  IF negative THEN <<"-">> \o formatted ELSE formatted

\* formatTokenAmount: the formatted amount, a space and the symbol.
formatTokenAmount(amount, tokenInfo) ==
    formatUnits(amount, tokenInfo.decimals) \o <<" ", tokenInfo.symbol>>

\* The amounts given to the commands.
RawAmounts ==
    { <<"1", "0">>, <<"0">>, <<"0", "0", "7">>, <<"1", "0", ".", "5">>,
      <<".", "5">>, <<"5", ".">>, <<"0", ".", "0", "0", "0", "0", "0", "1">>,
      <<"0", ".", "0", "0", "0", "0", "0", "0", "1">>,
      <<"1", ".", "5", "0", "0", "0", "0", "0", "0">>,
      <<"1", "e", "3">>, <<"1", ".", "2", ".", "3">>, <<>>, <<".">>,
      <<"-", "2">> }

\* Amounts as the contract returns them.
ChainAmounts ==
    { <<"0">>, <<"1">>, <<"5", "0", "0">>, <<"1", "5", "0", "0", "0", "0", "0">>,
      <<"1", "2", "3", "4", "5", "6", "7", "8">>, <<"1">> \o Zeros(EthDecimals),
      <<"1", "0", "5">> \o Zeros(EthDecimals - 2) }

\* The test-parse command: the identifier and the amount are parsed, and the
\* amount is formatted for the reply.
testParse(testAmount, testToken) ==
    /\ LET tokenInfo == parseTokenIdentifier(testToken)
           amount == IF tokenInfo = ErrInvalidToken THEN <<>>
                     ELSE parseTokenAmount(testAmount, tokenInfo)
       IN  units' = [NoUnits EXCEPT
                        !.pc = "test-parse",
                        !.tokenIdentifier = testToken,
                        !.amountRaw = testAmount,
                        !.tokenInfo = tokenInfo,
                        !.amount = amount,
                        !.formatted = IF amount \in {<<>>, ErrAmountFormat}
                                      THEN <<>>
                                      ELSE formatTokenAmount(amount, tokenInfo)]
    /\ UNCHANGED <<chain, stack, lastCall, view, bot, bills>>

\* An amount read from the contract is formatted for a message.
displayAmount(amount, tokenIdentifier) ==
    /\ parseTokenIdentifier(tokenIdentifier) # ErrInvalidToken
    /\ LET tokenInfo == parseTokenIdentifier(tokenIdentifier) IN
       units' = [NoUnits EXCEPT !.pc = "formatTokenAmount",
                                !.tokenIdentifier = tokenIdentifier,
                                !.tokenInfo = tokenInfo,
                                !.amount = amount,
                                !.formatted = formatTokenAmount(amount, tokenInfo)]
    /\ UNCHANGED <<chain, stack, lastCall, view, bot, bills>>

\* The formatted amount, without the space and the symbol, is parsed.
parseFormatted ==
    /\ units.pc \in {"test-parse", "formatTokenAmount"}
    /\ units.formatted # <<>>
    /\ units' = [units EXCEPT
                    !.pc = "parseTokenAmount",
                    !.parsed = parseTokenAmount(
                                   SubSeq(units.formatted, 1, Len(units.formatted) - 2),
                                   units.tokenInfo)]
    /\ UNCHANGED <<chain, stack, lastCall, view, bot, bills>>

NextUnits ==
    \/ \E testAmount \in RawAmounts, testToken \in TokenIdentifiers :
            testParse(testAmount, testToken)
    \/ \E amount \in ChainAmounts, tokenIdentifier \in TokenIdentifiers :
            displayAmount(amount, tokenIdentifier)
    \/ parseFormatted

SpecUnits == Init /\ [][NextUnits]_vars

\* queryFilter(DebtAdded(undefined, debtor, creditor)): the DebtAdded events
\* with this debtor and creditor, in log order.
RECURSIVE debtAddedEvents(_, _, _)
debtAddedEvents(events, debtor, creditor) ==
    IF events = <<>> THEN <<>>
    ELSE LET e == Head(events)
             rest == debtAddedEvents(Tail(events), debtor, creditor)
         IN  IF e.type = "DebtAdded" /\ e.debtor = debtor /\ e.creditor = creditor
             THEN <<e>> \o rest
             ELSE rest

\* The DebtProposed events between the two users, on any token, in log order.
RECURSIVE relevantProposedEvents(_, _, _)
relevantProposedEvents(events, user1, user2) ==
    IF events = <<>> THEN <<>>
    ELSE LET e == Head(events)
             rest == relevantProposedEvents(Tail(events), user1, user2)
         IN  IF /\ e.type = "DebtProposed"
                /\ \/ e.creditor = user1 /\ e.debtor = user2
                   \/ e.creditor = user2 /\ e.debtor = user1
             THEN <<e>> \o rest
             ELSE rest

\* The entries of the history command's reply, in the order it lists them:
\* the confirmed debts (the author's, then the target's), then the pending ones.
history(events, authorWallet, targetWallet) ==
    LET confirmedDebtEvents == debtAddedEvents(events, authorWallet, targetWallet)
                                   \o debtAddedEvents(events, targetWallet, authorWallet)
        resolved == {id \in Ids : isDebtResolved(events, id)}
    IN  confirmedDebtEvents
            \o pendingDebtEvents(relevantProposedEvents(events, authorWallet, targetWallet),
                                 resolved)

\* ------------------------------------------------------------ C1
\* C1: netting invariant.  In every reachable state, for every token and every
\* pair of distinct accounts a, b, at most one of debts[token][a][b] and
\* debts[token][b][a] is non-zero.
NettingInvariant ==
    \A token \in Tokens, a \in Accounts, b \in Accounts :
        a # b => (debts[token][a][b] = 0 \/ debts[token][b][a] = 0)

\* Two debts in opposite directions between one pair were applied, and the
\* larger one left a balance.
NettingInvariantWitness ==
    \E token \in Tokens, a \in Accounts, b \in Accounts :
        /\ a # b
        /\ debts[token][a][b] > 0
        /\ \E i, j \in DOMAIN log :
              /\ log[i].type = "DebtAdded" /\ log[j].type = "DebtAdded"
              /\ log[i].token = token /\ log[j].token = token
              /\ log[i].debtor = a /\ log[i].creditor = b
              /\ log[j].debtor = b /\ log[j].creditor = a

\* ------------------------------------------------------------ C2
\* The ledger that holds nothing but the net balance n between A and B on T1:
\* A owes B n when n is positive, B owes A -n when it is negative.
LedgerOfNet(n) ==
    [token \in Tokens |-> [d \in Accounts |-> [c \in Accounts |->
        IF token = "T1" /\ d = "A" /\ c = "B" /\ n > 0 THEN n
        ELSE IF token = "T1" /\ d = "B" /\ c = "A" /\ n < 0 THEN 0 - n
        ELSE 0]]]

\* C2: netting conservation.  After every sequence of applied debts between
\* A and B on one token, debts[A][B] - debts[B][A] is the signed sum of the
\* applied amounts (A owes B positive, B owes A negative); the ledger is the
\* one that this sum alone determines, whatever the order of the debts.
NettingConservation ==
    /\ debts["T1"]["A"]["B"] - debts["T1"]["B"]["A"] = SignedSum(log, "T1", "A", "B")
    /\ debts = LedgerOfNet(SignedSum(log, "T1", "A", "B"))

\* Debts in both directions and of different amounts were applied, three at least.
NettingConservationWitness ==
    /\ Len(log) >= 3
    /\ \E i, j \in DOMAIN log :
          /\ log[i].debtor = "A" /\ log[j].debtor = "B"
          /\ log[i].amount # log[j].amount
    /\ debts["T1"]["B"]["A"] > 0

\* ------------------------------------------------------------ C3
\* The worked example: the debts applied, as <<debtor, creditor, amount>>, and
\* <<debts[A][B], debts[B][A]>> after each of them.
Example ==
    << <<"A", "B", 100>>, <<"B", "A", 20>>, <<"A", "B", 80>>, <<"B", "A", 200>> >>

ExampleBalances == << <<100, 0>>, <<80, 0>>, <<160, 0>>, <<0, 40>> >>

Gross(events) ==
    [i \in 1..Len(events) |-> <<events[i].debtor, events[i].creditor, events[i].amount>>]

ExampleHolds ==
    \A k \in 1..Len(Example) :
        (Len(log) = k /\ Gross(log) = SubSeq(Example, 1, k))
            => <<debts["T1"]["A"]["B"], debts["T1"]["B"]["A"]>> = ExampleBalances[k]

\* One successful netting step of amount m from debtor d to creditor c.
NettingStepHolds ==
    (lastCall'.op = "addDebt" /\ lastCall'.result = Ok) =>
        LET token == lastCall'.token
            d == lastCall'.sender
            c == lastCall'.party
            m == lastCall'.amount
            opposite == debts[token][c][d]
        IN  /\ m > 0
            /\ IF opposite >= m
               THEN /\ debts'[token][c][d] = opposite - m
                    /\ debts'[token][d][c] = debts[token][d][c]
               ELSE /\ debts'[token][c][d] = 0
                    /\ debts'[token][d][c] = debts[token][d][c] + (m - opposite)

\* C3: netting step.  Applying a debt of m > 0 from d to c with opposite =
\* debts[c][d]: if opposite >= m, debts[c][d] becomes opposite - m and
\* debts[d][c] is unchanged; otherwise debts[c][d] becomes 0 and debts[d][c]
\* grows by m - opposite.  From A owes B 100: B->A 20 gives (80, 0), A->B 80
\* gives (160, 0), B->A 200 gives (0, 40).
NettingStep == []ExampleHolds /\ [][NettingStepHolds]_vars

\* The four debts of the example were applied and B owes A 40.
NettingStepWitness ==
    /\ Len(log) = 4
    /\ Gross(log) = Example
    /\ debts["T1"]["B"]["A"] = 40
    /\ debts["T1"]["A"]["B"] = 0

\* ------------------------------------------------------------ C4
\* One step, as C4 sees it.  proposeDebt and rejectDebt leave the ledger
\* alone.  A reverting transfer returns the ledger to what it was when that
\* settleDebt was called; in every other step an entry grows only by the
\* debtor's own confirmDebt of a proposal naming that debtor and creditor.
DebtorConsentHolds ==
    \/ debts' = debts
    \/ /\ lastCall'.op \notin {"proposeDebt", "rejectDebt"}
       /\ IF lastCall'.result = ErrTransfer
          THEN debts' = stack[Len(stack)].before.debts
          ELSE \A token \in Tokens, d \in Accounts, c \in Accounts :
                  debts'[token][d][c] > debts[token][d][c] =>
                      /\ lastCall'.op = "confirmDebt"
                      /\ lastCall'.result = Ok
                      /\ lastCall'.sender = d
                      /\ pendingDebts[lastCall'.id].exists
                      /\ pendingDebts[lastCall'.id].debtor = d
                      /\ pendingDebts[lastCall'.id].creditor = c
                      /\ pendingDebts[lastCall'.id].token = token

ProposalExclusivity ==
    \A id \in Ids : Cardinality(Resolutions(id)) <= 1

\* A rejected proposal, and its debtor's later confirmDebt, which has failed.
ProposalExclusivityWitness ==
    /\ lastCall.op = "confirmDebt"
    /\ lastCall.result = ErrNoPending
    /\ \E i \in DOMAIN log : log[i] = DebtRejected(lastCall.id)
    /\ \E c \in Accounts : ProposedWith(lastCall.id, lastCall.sender, c)

\* ------------------------------------------------------------ C6
NeverProposed(id) ==
    ~ \E i \in DOMAIN log : log[i].type = "DebtProposed" /\ log[i].pendingDebtId = id

Resolved(id) == Resolutions(id) # {}

NotFoundHolds ==
    (/\ lastCall'.op \in {"confirmDebt", "rejectDebt"}
     /\ (NeverProposed(lastCall'.id) \/ Resolved(lastCall'.id)))
        => /\ lastCall'.result = ErrNoPending
           /\ UNCHANGED <<chain, stack>>

\* C6: confirmDebt or rejectDebt on an id that was never proposed or is
\* already resolved fails with 'Pending debt does not exist' for every caller
\* and leaves ledger, proposal store, counters and log unchanged.
NotFound == [][NotFoundHolds]_vars

\* The debtor of a confirmed proposal has confirmed it a second time, and failed.
NotFoundWitness ==
    /\ lastCall.op = "confirmDebt"
    /\ lastCall.result = ErrNoPending
    /\ \E i \in DOMAIN log : log[i] = DebtConfirmed(lastCall.id)
    /\ \E c \in Accounts : ProposedWith(lastCall.id, lastCall.sender, c)

\* ------------------------------------------------------------ C7
UnauthorizedConfirmHolds ==
    (/\ lastCall'.op = "confirmDebt"
     /\ pendingDebts[lastCall'.id].exists
     /\ lastCall'.sender # pendingDebts[lastCall'.id].debtor)
        => /\ lastCall'.result = ErrOnlyDebtor
           /\ UNCHANGED <<chain, stack>>

\* C7: unauthorized confirm.  confirmDebt on an open proposal by anyone but
\* its debtor, its creditor included, fails with 'Only the debtor can confirm
\* the debt' and leaves the ledger, the proposal and the log unchanged.
UnauthorizedConfirm == [][UnauthorizedConfirmHolds]_vars

\* The creditor of an open proposal has tried to confirm it.
UnauthorizedConfirmWitness ==
    /\ lastCall.op = "confirmDebt"
    /\ lastCall.result = ErrOnlyDebtor
    /\ pendingDebts[lastCall.id].exists
    /\ lastCall.sender = pendingDebts[lastCall.id].creditor

\* ------------------------------------------------------------ C8
RejectAuthorizationHolds ==
    (lastCall'.op = "rejectDebt" /\ pendingDebts[lastCall'.id].exists) =>
        LET id == lastCall'.id
            pending == pendingDebts[id]
        IN  IF lastCall'.sender \in {pending.debtor, pending.creditor}
            THEN /\ lastCall'.result = Ok
                 /\ ~pendingDebts'[id].exists
                 /\ \A other \in Ids \ {id} : pendingDebts'[other] = pendingDebts[other]
                 /\ log' = Append(log, DebtRejected(id))
                 /\ UNCHANGED <<debts, debtActionCounter, pendingDebtCounter, moved, stack>>
            ELSE /\ lastCall'.result = ErrOnlyParty
                 /\ UNCHANGED <<chain, stack>>

\* C8: reject authorization.  rejectDebt on an open proposal succeeds for its
\* debtor and for its creditor (the proposal is deleted, DebtRejected{id} is
\* emitted) and fails with 'Only debtor or creditor can reject', changing
\* nothing, for any other caller.
RejectAuthorization == [][RejectAuthorizationHolds]_vars

\* The creditor of a proposal has rejected it.
RejectAuthorizationWitness ==
    /\ lastCall.op = "rejectDebt"
    /\ lastCall.result = Ok
    /\ ~pendingDebts[lastCall.id].exists
    /\ \E d \in Accounts : ProposedWith(lastCall.id, d, lastCall.sender)
    /\ log[Len(log)] = DebtRejected(lastCall.id)

\* ------------------------------------------------------------ C9
\* The transfer that the settleDebt call of a stack frame asks the token for.
TransferOf(frame) ==
    [token |-> frame.token, from |-> frame.debtor, to |-> frame.creditor,
     amount |-> frame.amountOwed]

SettlementEffectHolds ==
    (lastCall'.op = "settleDebt" /\ lastCall'.result = Ok) =>
        LET frame == stack[Len(stack)] IN
        /\ frame.amountOwed > 0
        /\ moved' = Append(moved, TransferOf(frame))
        /\ debts'[frame.token][frame.debtor][frame.creditor] = 0
        /\ log' = Append(log, DebtSettled(frame.debtor, frame.creditor, frame.token,
                                          frame.amountOwed))

\* C9: settlement effect.  With debts[token][A][B] = v > 0, settleDebt by A
\* for B succeeds only if the transfer of exactly v from A to B succeeds; on
\* success debts[token][A][B] = 0 and exactly one DebtSettled{A, B, token, v}
\* has been appended, after the transfer.
SettlementEffect == [][SettlementEffectHolds]_vars

\* ------------------------------------------------------------ C10
\* The step in which an in-flight transferFrom ends without having moved the
\* tokens: it reverted, or it returned false.
TransferFails ==
    /\ stack # <<>>
    /\ lastCall'.op = "settleDebt"
    /\ \/ lastCall'.result = ErrTransfer
       \/ lastCall'.result = Ok /\ moved' = moved

SettlementRollbackHolds ==
    TransferFails =>
        LET frame == stack[Len(stack)] IN
        /\ debts'[frame.token][frame.debtor][frame.creditor] = frame.amountOwed
        /\ ~ \E i \in DOMAIN log' :
                /\ i > Len(frame.before.log)
                /\ log'[i] = DebtSettled(frame.debtor, frame.creditor, frame.token,
                                         frame.amountOwed)

\* C10: settlement rollback.  Whenever the transfer fails, by reverting or by
\* returning false, settleDebt fails as a whole: debts[token][debtor][creditor]
\* is what it was before the call and no DebtSettled event is emitted.
SettlementRollback == [][SettlementRollbackHolds]_vars

\* ------------------------------------------------------------ C11
\* The frames of settleDebt calls in flight for this token, debtor and creditor.
FramesOf(token, debtor, creditor) ==
    {k \in DOMAIN stack : /\ stack[k].token = token
                          /\ stack[k].debtor = debtor
                          /\ stack[k].creditor = creditor}

\* A settleDebt call made while a settleDebt for the same token, debtor and
\* creditor is waiting for its transfer.
ReentersSettle ==
    /\ lastCall'.op = "settleDebt"
    /\ lastCall'.result \in {Calling, ErrNoDebt}
    /\ FramesOf(lastCall'.token, lastCall'.sender, lastCall'.party) # {}

\* The debtor has confirmed a debt to the creditor since frame k was called.
ConfirmedSince(k) ==
    \E i \in DOMAIN log :
        /\ i > Len(stack[k].before.log)
        /\ log[i].type = "DebtAdded"
        /\ log[i].token = stack[k].token
        /\ log[i].debtor = stack[k].debtor
        /\ log[i].creditor = stack[k].creditor

\* Sum of the amounts of the transfers of token from debtor to creditor.
RECURSIVE MovedSum(_, _, _, _)
MovedSum(transfers, token, debtor, creditor) ==
    IF transfers = <<>> THEN 0
    ELSE LET t == Head(transfers)
             rest == MovedSum(Tail(transfers), token, debtor, creditor)
         IN  IF t.token = token /\ t.from = debtor /\ t.to = creditor
             THEN rest + t.amount
             ELSE rest

\* Sum of the amounts that the frames in flight ask the token to transfer.
RECURSIVE InFlightSum(_, _, _, _)
InFlightSum(frames, token, debtor, creditor) ==
    IF frames = <<>> THEN 0
    ELSE LET f == Head(frames)
             rest == InFlightSum(Tail(frames), token, debtor, creditor)
         IN  IF f.token = token /\ f.debtor = debtor /\ f.creditor = creditor
             THEN rest + f.amountOwed
             ELSE rest

\* Sum of the DebtAdded amounts of token with this debtor and creditor.
RECURSIVE AddedSum(_, _, _, _)
AddedSum(events, token, debtor, creditor) ==
    IF events = <<>> THEN 0
    ELSE LET e == Head(events)
             rest == AddedSum(Tail(events), token, debtor, creditor)
         IN  IF /\ e.type = "DebtAdded" /\ e.token = token
                /\ e.debtor = debtor /\ e.creditor = creditor
             THEN rest + e.amount
             ELSE rest

\* What was transferred, what is being transferred and what is still owed
\* never exceed what the debtor confirmed.
TransferBound ==
    \A token \in Tokens, d \in Accounts, c \in Accounts :
        MovedSum(moved, token, d, c) + InFlightSum(stack, token, d, c)
            + debts[token][d][c] <= AddedSum(log, token, d, c)

ReentrantSettleAlwaysFailsHolds ==
    ReentersSettle =>
        /\ debts[lastCall'.token][lastCall'.sender][lastCall'.party] = 0
        /\ lastCall'.result = ErrNoDebt
        /\ UNCHANGED <<chain, stack>>

\* C11 as stated: every settleDebt call that re-enters for the token, debtor
\* and creditor of a settleDebt whose transfer is in progress observes a zero
\* entry and fails with 'No debt to settle'; one balance of v never causes
\* more than v to be transferred.
ReentrantSettleAlwaysFails ==
    []TransferBound /\ [][ReentrantSettleAlwaysFailsHolds]_vars

SettlementReentrancyHolds ==
    (/\ ReentersSettle
     /\ \E k \in FramesOf(lastCall'.token, lastCall'.sender, lastCall'.party) :
            ~ConfirmedSince(k))
        => /\ debts[lastCall'.token][lastCall'.sender][lastCall'.party] = 0
           /\ lastCall'.result = ErrNoDebt
           /\ UNCHANGED <<chain, stack>>

\* C11, amended: settleDebt zeroes the entry before it calls the token, so a
\* settleDebt call that re-enters for the same token, debtor and creditor
\* while the transfer is in progress observes a zero entry and fails with 'No
\* debt to settle', unless the debtor has confirmed a further debt to that
\* creditor since the transfer began; in every state the amounts transferred,
\* in transfer and still owed from a debtor to a creditor are together at most
\* the amounts that debtor confirmed.
SettlementReentrancy ==
    []TransferBound /\ [][SettlementReentrancyHolds]_vars

\* A debtor contract has called settleDebt again from inside its own transfer
\* and has failed.
SettlementReentrancyWitness ==
    /\ stack # <<>>
    /\ lastCall.op = "settleDebt"
    /\ lastCall.result = ErrNoDebt
    /\ lastCall.sender = stack[Len(stack)].debtor
    /\ lastCall.party = stack[Len(stack)].creditor
    /\ lastCall.token = stack[Len(stack)].token
    /\ stack[Len(stack)].amountOwed > 0

\* ------------------------------------------------------------ C12
\* The step is a call of settleDebt (not the return of its transfer).
SettleCalled ==
    /\ lastCall'.op = "settleDebt"
    /\ lastCall'.result \in {Calling, ErrNoDebt}

NothingToSettleHolds ==
    (SettleCalled /\ debts[lastCall'.token][lastCall'.sender][lastCall'.party] = 0)
        => /\ lastCall'.result = ErrNoDebt
           /\ UNCHANGED <<chain, stack>>

\* C12: settleDebt called when debts[token][caller][creditor] is zero fails
\* with 'No debt to settle', invokes no transfer, emits no event and changes
\* no state; so does a second settleDebt right after a successful one.
NothingToSettle == [][NothingToSettleHolds]_vars

\* A debtor has settled and has called settleDebt once more, which has failed.
NothingToSettleWitness ==
    /\ stack = <<>>
    /\ lastCall.op = "settleDebt"
    /\ lastCall.result = ErrNoDebt
    /\ log # <<>>
    /\ log[Len(log)].type = "DebtSettled"
    /\ log[Len(log)].debtor = lastCall.sender
    /\ log[Len(log)].creditor = lastCall.party
    /\ log[Len(log)].token = lastCall.token

\* ------------------------------------------------------------ C13
\* The step is a successful confirmDebt.
Confirmed == lastCall'.op = "confirmDebt" /\ lastCall'.result = Ok

\* One confirmDebt as the tests read the ledger after it, with P the proposer
\* and Q the confirming account.  The first debt of the ledger: debts[P][Q]
\* is the amount.  The second, smaller than the first and proposed by the
\* account that confirmed the first, naming its proposer: debts[Q][P] is the
\* first amount less the second and debts[P][Q] is 0.
ProposerOwesHolds ==
    Confirmed =>
        LET pending == pendingDebts[lastCall'.id]
            token == pending.token
            P == pending.creditor
            Q == pending.debtor
        IN  /\ log' = log \o <<DebtAdded(debtActionCounter + 1, pending.debtor,
                                         pending.creditor, token, pending.amount,
                                         pending.memo),
                               DebtConfirmed(lastCall'.id)>>
            /\ debtActionCounter = 0 => debts'[token][P][Q] = pending.amount
            /\ \A i \in DOMAIN log :
                  (/\ debtActionCounter = 1
                   /\ log[i].type = "DebtAdded"
                   /\ log[i].token = token
                   /\ log[i].debtor = P
                   /\ log[i].creditor = Q
                   /\ log[i].amount > pending.amount) =>
                      /\ debts'[token][Q][P] = log[i].amount - pending.amount
                      /\ debts'[token][P][Q] = 0

\* C13: direction of a confirmed proposal as the tests state it.  When P calls
\* proposeDebt(token, Q, amount, memo) and Q confirms, DebtAdded and
\* DebtConfirmed are emitted and debts(token, P, Q) = amount; when Q then
\* proposes a smaller y naming P and P confirms, debts(token, P, Q) =
\* amount - y and debts(token, Q, P) = 0.
ProposerOwes == [][ProposerOwesHolds]_vars

\* ------------------------------------------------------------ C14
\* The log of the test up to its settleDebt: P's proposal naming Q, confirmed.
ProposedAndConfirmed(P, Q, token) ==
    /\ Len(log) = 3
    /\ log[1].type = "DebtProposed"
    /\ log[1].creditor = P
    /\ log[1].debtor = Q
    /\ log[1].token = token
    /\ log[2].type = "DebtAdded"
    /\ log[3] = DebtConfirmed(log[1].pendingDebtId)

SettleAfterConfirmHolds ==
    /\ (/\ SettleCalled
        /\ stack = <<>>
        /\ ProposedAndConfirmed(lastCall'.sender, lastCall'.party, lastCall'.token))
          => /\ lastCall'.result = Calling
             /\ lastCall'.amount = log[1].amount
             /\ debts'[lastCall'.token][lastCall'.sender][lastCall'.party] = 0
    /\ (/\ lastCall'.op = "settleDebt"
        /\ lastCall'.result = Ok
        /\ ProposedAndConfirmed(lastCall'.sender, lastCall'.party, lastCall'.token))
          => /\ log' = Append(log, DebtSettled(lastCall'.sender, lastCall'.party,
                                               lastCall'.token, log[1].amount))
             /\ debts'[lastCall'.token][lastCall'.sender][lastCall'.party] = 0

\* C14: settle after confirm as the test states it.  After P calls
\* proposeDebt(token, Q, v, memo) and Q confirms, P's settleDebt(token, Q)
\* succeeds, asks the token to move v from P to Q, emits DebtSettled and
\* leaves debts(token, P, Q) = 0.
SettleAfterConfirm == [][SettleAfterConfirmHolds]_vars

\* ------------------------------------------------------------ C15
RoundTripConfirmHolds ==
    (/\ Confirmed
     /\ lastCall.op = "proposeDebt"
     /\ lastCall.result = Ok
     /\ lastCall.id = lastCall'.id)
        => LET token == lastCall.token
               creditor == lastCall.sender
               debtor == lastCall.party
               amount == lastCall.amount
           IN  /\ lastCall'.sender = debtor
               /\ addDebtResult(debts, token, debtor, creditor, amount) = Ok
               /\ debts' = addDebt(debts, token, debtor, creditor, amount)
               /\ debtActionCounter' = debtActionCounter + 1

\* proposeDebt changes neither the ledger nor the DebtAdded counter.
ProposeLeavesLedger ==
    lastCall'.op = "proposeDebt" => UNCHANGED <<debts, debtActionCounter>>

RejectsLastProposal ==
    /\ lastCall'.op = "rejectDebt"
    /\ lastCall'.result = Ok
    /\ lastCall.op = "proposeDebt"
    /\ lastCall.result = Ok
    /\ lastCall.id = lastCall'.id

\* proposeDebt leaves the ledger alone, writes the proposal under a fresh id
\* and appends one event.
ProposeEffect ==
    (lastCall'.op = "proposeDebt" /\ lastCall'.result = Ok) =>
        /\ UNCHANGED <<debts, debtActionCounter, moved, stack>>
        /\ pendingDebts[lastCall'.id] = NoPending
        /\ \A other \in Ids \ {lastCall'.id} : pendingDebts'[other] = pendingDebts[other]
        /\ SubSeq(log', 1, Len(log)) = log
        /\ Len(log') = Len(log) + 1

RoundTripRejectHolds ==
    RejectsLastProposal =>
        LET before == SubSeq(log, 1, Len(log) - 1) IN
        /\ \A token \in Tokens, user1 \in Accounts, user2 \in Accounts :
              balance(debts', log', token, user1, user2)
                  = balance(debts, before, token, user1, user2)
        /\ pendingDebts' = [pendingDebts EXCEPT ![lastCall.id] = NoPending]
        /\ UNCHANGED <<debts, debtActionCounter, pendingDebtCounter, moved, stack>>

RECURSIVE storedSum(_, _, _, _)
storedSum(n, token, debtor, creditor) ==
    IF n = 0 THEN 0
    ELSE LET pending == pendingDebts[n]
             rest == storedSum(n - 1, token, debtor, creditor)
         IN  IF /\ pending.exists /\ pending.token = token
                /\ pending.debtor = debtor /\ pending.creditor = creditor
             THEN rest + pending.amount
             ELSE rest

\* The open proposals of the pair and token, folded from the log.
OpenInLog(token, user1, user2) ==
    pendingDebtEvents(relevantEvents(log, token, user1, user2),
                      {id \in Ids : isDebtResolved(log, id)})

BalanceDirection ==
    \A token \in Tokens, A \in Accounts, B \in Accounts :
        A # B =>
            LET reply == balance(debts, log, token, A, B) IN
            /\ reply.youOweThem = debts[token][A][B]
            /\ reply.theyOweYou = debts[token][B][A]
            /\ reply.youOweThemPending = storedSum(MaxLedgerProposals, token, A, B)
            /\ reply.theyOweYouPending = storedSum(MaxLedgerProposals, token, B, A)

\* ------------------------------------------------------------ C19
\* The position of an event in the log: events are emitted in the order of
\* block.timestamp and, for DebtAdded, of debtActionCounter.
Position(e) == CHOOSE i \in DOMAIN log : log[i] = e

\* C19: history view ordering.  The history of a pair lists the DebtAdded
\* events of both directions and the still-open DebtProposed events of the
\* pair in ascending order: no DebtAdded with a larger actionId is listed
\* before one with a smaller one, and no entry emitted later is listed before
\* one emitted earlier.
HistoryOrdering ==
    \A author \in Accounts, target \in Accounts :
        author # target =>
            LET listed == history(log, author, target) IN
            \A i \in DOMAIN listed, j \in DOMAIN listed :
                i < j =>
                    /\ Position(listed[i]) < Position(listed[j])
                    /\ (listed[i].type = "DebtAdded" /\ listed[j].type = "DebtAdded")
                          => listed[i].actionId < listed[j].actionId

\* ------------------------------------------------------------ C20
\* The ledger that the DebtAdded events of a log produce from the empty one.
RECURSIVE LedgerOf(_)
LedgerOf(events) ==
    IF events = <<>>
    THEN [t \in Tokens |-> [d \in Accounts |-> [c \in Accounts |-> 0]]]
    ELSE LET e == events[Len(events)]
             d == LedgerOf(SubSeq(events, 1, Len(events) - 1))
         IN  IF e.type = "DebtAdded"
             THEN addDebt(d, e.token, e.debtor, e.creditor, e.amount)
             ELSE d

\* The reply that the balance command gives on the state committed when the
\* log had n events.
ReplyAt(n) ==
    balance(LedgerOf(SubSeq(log, 1, n)), SubSeq(log, 1, n), "T1", "A", "B")

\* The proposal of this DebtProposed event was confirmed, and the command
\* read the ledger after that.
InConfirmed(e) ==
    \E i \in 1..view.from : log[i] = DebtConfirmed(e.pendingDebtId)

InPending(e) ==
    \E i \in DOMAIN view.pendingDebtEvents : view.pendingDebtEvents[i] = e

\* C20: snapshot consistency of views.  A balance view computed while
\* proposeDebt, confirmDebt and rejectDebt transactions commit reports
\* figures that all belong to one committed state; a proposal that was open
\* when the view began and was not rejected is in the confirmed figures or in
\* the pending ones, never in neither and never in both.
SnapshotConsistency ==
    view.pc = "done" =>
        /\ \E n \in view.from..view.to : view.reply = ReplyAt(n)
        /\ \A i \in 1..view.from :
              (/\ log[i].type = "DebtProposed"
               /\ log[i].token = "T1"
               /\ {log[i].debtor, log[i].creditor} = {"A", "B"}
               /\ ~ \E j \in DOMAIN log : log[j] = DebtRejected(log[i].pendingDebtId))
                  => (InConfirmed(log[i]) <=> ~InPending(log[i]))

\* ------------------------------------------------------------ C21
\* The proposals of the log, in the order of their creation.
Proposals == SelectSeq(log, LAMBDA e : e.type = "DebtProposed")

\* A proposeDebt call that names its caller as the debtor.
SelfProposal(call) ==
    call.op = "proposeDebt" /\ call.party = call.sender

SelfProposalFailsHolds ==
    SelfProposal(lastCall') =>
        /\ lastCall'.result = ErrSame
        /\ UNCHANGED <<pendingDebtCounter, pendingDebts, log>>
        /\ UNCHANGED <<debts, debtActionCounter>>

NoSelfProposalStored ==
    /\ \A id \in Ids : pendingDebts[id].exists =>
            pendingDebts[id].creditor # pendingDebts[id].debtor
    /\ \A k \in 1..Len(Proposals) : Proposals[k].creditor # Proposals[k].debtor
    /\ lastCall.op = "confirmDebt" => lastCall.result # ErrSame

\* C21: a proposeDebt whose debtor is the caller fails with "Debtor and
\* creditor cannot be the same" and changes neither the proposal counter, the
\* proposal store nor the event log; so every proposal stored or logged has a
\* creditor other than its debtor, and no confirmDebt fails on addDebt's
\* require that the debtor differs from the creditor.
SelfProposalFails ==
    []NoSelfProposalStored /\ [][SelfProposalFailsHolds]_vars

\* A proposal to oneself has just failed while an earlier proposal is open.
SelfProposalFailsWitness ==
    /\ SelfProposal(lastCall)
    /\ lastCall.result = ErrSame
    /\ pendingDebtCounter = 1
    /\ pendingDebts[1].exists

\* ------------------------------------------------------------ C22
\* Proposal id is open and its amount is zero.
ZeroOpen(id) == pendingDebts[id].exists /\ pendingDebts[id].amount = 0

DeferredValidationHolds ==
    \* a proposal to another account is stored whatever its amount
    /\ lastCall'.op = "proposeDebt" /\ lastCall'.party # lastCall'.sender =>
            /\ lastCall'.result = Ok
            /\ pendingDebts'[lastCall'.id] =
                   PendingDebt(lastCall'.sender, lastCall'.party, lastCall'.token,
                               lastCall'.amount, pendingDebts'[lastCall'.id].memo)
    \* a confirmDebt on an open proposal of amount zero fails, on the amount
    \* once the caller is its debtor, and changes nothing
    /\ lastCall'.op = "confirmDebt" /\ ZeroOpen(lastCall'.id) =>
            /\ lastCall'.result =
                   IF lastCall'.sender = pendingDebts[lastCall'.id].debtor
                   THEN ErrPositive ELSE ErrOnlyDebtor
            /\ UNCHANGED <<chain, stack>>
    \* it leaves the store by a rejectDebt only
    /\ \A id \in Ids : ZeroOpen(id) /\ ~pendingDebts'[id].exists =>
            /\ lastCall'.op = "rejectDebt" /\ lastCall'.id = id
            /\ lastCall'.result = Ok
            /\ lastCall'.sender \in {pendingDebts[id].debtor, pendingDebts[id].creditor}
            /\ log' = Append(log, DebtRejected(id))

ZeroNeverConfirmed ==
    /\ \A id \in Ids : ZeroOpen(id) =>
            /\ rejectDebtResult(pendingDebts[id].debtor, id) = Ok
            /\ rejectDebtResult(pendingDebts[id].creditor, id) = Ok
    /\ \A k \in 1..Len(Proposals) : Proposals[k].amount = 0 =>
            \A i \in 1..Len(log) : log[i] # DebtConfirmed(Proposals[k].pendingDebtId)

ProposalIdsInOrder ==
    /\ pendingDebtCounter = Len(Proposals)
    /\ \A k \in 1..Len(Proposals) : Proposals[k].pendingDebtId = k
    /\ \A id \in Ids : pendingDebts[id].exists =>
            id <= pendingDebtCounter /\ ~Resolved(id)

ProposalIdsHolds ==
    /\ lastCall'.op = "proposeDebt" /\ lastCall'.result = Ok /\ lastCall' # lastCall =>
            /\ lastCall'.id = Len(Proposals) + 1
            /\ NeverProposed(lastCall'.id)
            /\ pendingDebtCounter' = lastCall'.id
    /\ lastCall'.op = "proposeDebt" /\ lastCall'.result # Ok =>
            UNCHANGED <<pendingDebtCounter, pendingDebts, log>>
    /\ lastCall'.op # "proposeDebt" => UNCHANGED pendingDebtCounter

\* C23: the n-th proposeDebt that succeeds, whoever calls it, is given the id
\* n, the first one 1; a proposeDebt that fails takes no id; and an id whose
\* proposal was confirmed or rejected is never given to another proposal.
ProposalIds ==
    []ProposalIdsInOrder /\ [][ProposalIdsHolds]_vars

\* The second proposal has just been stored, after the first was resolved.
ProposalIdsWitness ==
    /\ lastCall.op = "proposeDebt"
    /\ lastCall.result = Ok
    /\ lastCall.id = 2
    /\ Resolved(1)

\* ------------------------------------------------------------ C24
\* The DebtAdded events of the log, in the order of their emission.
Added == SelectSeq(log, LAMBDA e : e.type = "DebtAdded")

ActionIdsInOrder ==
    /\ debtActionCounter = Len(Added)
    /\ \A k \in 1..Len(Added) : Added[k].actionId = k

ActionIdsHolds ==
    /\ lastCall'.result \notin {Ok, Calling} => UNCHANGED <<debtActionCounter, log>>
    /\ debtActionCounter' \in {debtActionCounter, debtActionCounter + 1}
    /\ debtActionCounter' = debtActionCounter + 1 =>
            /\ lastCall'.result = Ok
            /\ Added' = Append(Added, Added'[Len(Added')])
            /\ Added'[Len(Added')].actionId = debtActionCounter + 1

\* C24: the actionId of the k-th DebtAdded event of the log is k, whatever its
\* token and pair, so the ids start at 1 and rise by one from each DebtAdded to
\* the next; debtActionCounter is the number of DebtAdded events emitted; and
\* a call that fails leaves the counter as it was.
ActionIds ==
    []ActionIdsInOrder /\ [][ActionIdsHolds]_vars

\* Two debts were added, and a confirmDebt has failed since.
ActionIdsWitness ==
    /\ debtActionCounter = 2
    /\ Len(Added) = 2
    /\ lastCall.op = "confirmDebt"
    /\ lastCall.result # Ok

\* ------------------------------------------------------------ C25
\* Sum of the DebtSettled amounts of token with this debtor and creditor.
RECURSIVE SettledSum(_, _, _, _)
SettledSum(events, token, debtor, creditor) ==
    IF events = <<>> THEN 0
    ELSE LET e == Head(events)
             rest == SettledSum(Tail(events), token, debtor, creditor)
         IN  IF /\ e.type = "DebtSettled" /\ e.token = token
                /\ e.debtor = debtor /\ e.creditor = creditor
             THEN rest + e.amount
             ELSE rest

\* What the events say A owes B on token, net of what B owes A: the DebtAdded
\* amounts with debtor A and creditor B, minus those with debtor B and
\* creditor A, minus the DebtSettled amounts with debtor A and creditor B, plus
\* those with debtor B and creditor A.
RECURSIVE LoggedNetOf(_, _, _, _)
LoggedNetOf(events, token, A, B) ==
    IF events = <<>> THEN 0
    ELSE LET e == Head(events)
             rest == LoggedNetOf(Tail(events), token, A, B)
             sign == IF e.type = "DebtAdded" THEN 1 ELSE -1
         IN  IF e.type \in {"DebtAdded", "DebtSettled"} /\ e.token = token
             THEN IF e.debtor = A /\ e.creditor = B THEN rest + sign * e.amount
                  ELSE IF e.debtor = B /\ e.creditor = A THEN rest - sign * e.amount
                  ELSE rest
             ELSE rest

LoggedNet(token, A, B) == LoggedNetOf(log, token, A, B)

\* C25: between transactions, for every token and pair (A, B), the entry of A
\* towards B minus the entry of B towards A equals the DebtAdded amounts with
\* debtor A and creditor B, minus those with debtor B and creditor A, minus
\* the DebtSettled amounts with debtor A and creditor B, plus those with
\* debtor B and creditor A; while a settleDebt is waiting for its transfer,
\* the amounts it has taken off the ledger and not yet logged make up the
\* difference.
LedgerReconcilable ==
    \A token \in Tokens, A \in Accounts, B \in Accounts :
        debts[token][A][B] - debts[token][B][A] =
            LoggedNet(token, A, B)
                - InFlightSum(stack, token, A, B) + InFlightSum(stack, token, B, A)

\* A debt was netted against an opposite one, the balance was settled by a
\* transfer, and a further debt stands in the ledger.
LedgerReconcilableWitness ==
    /\ stack = <<>>
    /\ \E A \in PairAccounts, B \in PairAccounts :
            /\ AddedSum(log, "T1", A, B) > 0
            /\ AddedSum(log, "T1", B, A) > 0
            /\ SettledSum(log, "T1", A, B) > 0

\* ------------------------------------------------------------ C26
\* The positions before position i at which DebtProposed of id was emitted.
ProposedBefore(i, id) ==
    {j \in 1..(i - 1) : log[j].type = "DebtProposed" /\ log[j].pendingDebtId = id}

EventCount(type) == Cardinality({i \in DOMAIN log : log[i].type = type})

EventsCorrespond ==
    /\ \A i \in DOMAIN log : log[i].type \in {"DebtConfirmed", "DebtRejected"} =>
            Cardinality(ProposedBefore(i, log[i].pendingDebtId)) = 1
    /\ \A i \in DOMAIN log : log[i].type = "DebtConfirmed" =>
            /\ i > 1
            /\ log[i - 1].type = "DebtAdded"
            /\ \E j \in ProposedBefore(i, log[i].pendingDebtId) :
                    /\ log[i - 1].token = log[j].token
                    /\ log[i - 1].amount = log[j].amount
                    /\ log[i - 1].memo = log[j].memo
    /\ \A i \in DOMAIN log : log[i].type = "DebtAdded" =>
            i < Len(log) /\ log[i + 1].type = "DebtConfirmed"
    /\ EventCount("DebtAdded") = EventCount("DebtConfirmed")

EventsCorrespondHolds ==
    /\ lastCall'.op = "confirmDebt" /\ lastCall'.result = Ok /\ lastCall' # lastCall =>
            LET pending == pendingDebts[lastCall'.id] IN
            /\ Len(log') = Len(log) + 2
            /\ SubSeq(log', 1, Len(log)) = log
            /\ log'[Len(log) + 1].type = "DebtAdded"
            /\ log'[Len(log) + 1].token = pending.token
            /\ log'[Len(log) + 1].amount = pending.amount
            /\ log'[Len(log) + 1].memo = pending.memo
            /\ log'[Len(log) + 2] = DebtConfirmed(lastCall'.id)
    /\ lastCall'.op = "rejectDebt" /\ lastCall'.result = Ok /\ lastCall' # lastCall =>
            log' = Append(log, DebtRejected(lastCall'.id))
    /\ lastCall'.op \in {"confirmDebt", "rejectDebt"} /\ lastCall'.result # Ok =>
            log' = log

\* C26: every DebtConfirmed or DebtRejected of the log comes after exactly
\* one DebtProposed with its id; a confirmDebt that succeeds appends one
\* DebtAdded with the token, amount and memo of the proposal and then one
\* DebtConfirmed with its id, so the log always holds as many DebtAdded as
\* DebtConfirmed events; a rejectDebt appends DebtRejected and no DebtAdded.
EventCorrespondence ==
    []EventsCorrespond /\ [][EventsCorrespondHolds]_vars

\* One proposal was rejected and another has just been confirmed.
EventCorrespondenceWitness ==
    /\ lastCall.op = "confirmDebt"
    /\ lastCall.result = Ok
    /\ EventCount("DebtRejected") = 1
    /\ EventCount("DebtConfirmed") = 1

\* ------------------------------------------------------------ C27
\* The DebtProposed event of proposal id.
ProposalOf(id) == Proposals[CHOOSE k \in 1..Len(Proposals) : Proposals[k].pendingDebtId = id]

GrossActionLogged ==
    \A i \in DOMAIN log : log[i].type = "DebtConfirmed" =>
        LET proposed == ProposalOf(log[i].pendingDebtId)
            added == log[i - 1]
        IN  /\ added.type = "DebtAdded"
            /\ added.debtor = proposed.debtor
            /\ added.creditor = proposed.creditor
            /\ added.token = proposed.token
            /\ added.amount = proposed.amount

GrossActionHolds ==
    lastCall'.op = "confirmDebt" /\ lastCall'.result = Ok /\ lastCall' # lastCall =>
        LET pending == pendingDebts[lastCall'.id] IN
        log' = log \o <<DebtAdded(debtActionCounter + 1, pending.debtor, pending.creditor,
                                   pending.token, pending.amount, pending.memo),
                        DebtConfirmed(lastCall'.id)>>

\* C27: the DebtAdded event of an applied debt carries the debtor, the
\* creditor and the whole amount of the proposal, whatever the netting did to
\* the stored entries: also when the debt was cancelled in full against an
\* opposite one, and when it turned the direction of the stored balance.
GrossAction ==
    []GrossActionLogged /\ [][GrossActionHolds]_vars

\* The debt just added turned the balance: its debtor now owes less than the
\* amount of the event, the rest having cancelled the opposite debt.
GrossActionWitness ==
    /\ lastCall.op = "confirmDebt"
    /\ lastCall.result = Ok
    /\ Len(Added) = 2
    /\ LET added == Added[2] IN
       /\ debts[added.token][added.debtor][added.creditor] > 0
       /\ debts[added.token][added.debtor][added.creditor] < added.amount
       /\ debts[added.token][added.creditor][added.debtor] = 0

\* ------------------------------------------------------------ C28
\* The entries that the step changes.
ChangedEntries ==
    {e \in Tokens \X Accounts \X Accounts : debts'[e[1]][e[2]][e[3]] # debts[e[1]][e[2]][e[3]]}

AssetIsolationHolds ==
    /\ lastCall'.op \in {"confirmDebt", "settleDebt"} /\ lastCall'.result \in {Ok, Calling} =>
            \A e \in ChangedEntries :
                /\ e[1] = lastCall'.token
                /\ {e[2], e[3]} = {lastCall'.sender, lastCall'.party}
    /\ lastCall'.op \notin {"confirmDebt", "settleDebt"} => ChangedEntries = {}

\* C28: a confirmDebt or settleDebt for a token and a pair of accounts changes
\* no entry of another token and no entry of that token for another pair, so
\* a debt in one token is never netted against a debt in another; no other
\* call changes the ledger at all.
AssetIsolation ==
    [][AssetIsolationHolds]_vars

\* The debt just confirmed stands beside an opposite debt of the same pair in
\* the other token: neither was netted against the other.
AssetIsolationWitness ==
    /\ lastCall.op = "confirmDebt"
    /\ lastCall.result = Ok
    /\ debts[lastCall.token][lastCall.sender][lastCall.party] > 0
    /\ \E t \in Tokens \ {lastCall.token} : debts[t][lastCall.party][lastCall.sender] > 0

\* ------------------------------------------------------------ C29
OwnDebtOnlyHolds ==
    \* the call zeroes the caller's own entry and asks for a transfer from the caller
    /\ lastCall'.op = "settleDebt" /\ lastCall'.result = Calling =>
            /\ ChangedEntries = {<<lastCall'.token, lastCall'.sender, lastCall'.party>>}
            /\ debts'[lastCall'.token][lastCall'.sender][lastCall'.party] = 0
            /\ stack' = Append(stack, stack'[Len(stack')])
            /\ TransferOf(stack'[Len(stack')]) =
                   [token |-> lastCall'.token, from |-> lastCall'.sender,
                    to |-> lastCall'.party, amount |-> lastCall'.amount]
    \* a call for an entry that is zero changes nothing, whoever owes the creditor
    /\ lastCall'.op = "settleDebt" /\ lastCall'.result = ErrNoDebt =>
            UNCHANGED <<chain, stack>>
    \* the return of the transfer changes no entry; tokens move from the caller only
    /\ lastCall'.op = "settleDebt" /\ lastCall'.result = Ok =>
            /\ ChangedEntries = {}
            /\ moved' # moved =>
                   moved' = Append(moved, [token |-> lastCall'.token,
                                           from |-> lastCall'.sender,
                                           to |-> lastCall'.party,
                                           amount |-> lastCall'.amount])
    \* a call that reverts leaves the entries as they were when it was made
    /\ lastCall'.op = "settleDebt" /\ lastCall'.result = ErrTransfer =>
            debts' = stack[Len(stack)].before.debts
    /\ lastCall'.op # "settleDebt" => UNCHANGED <<moved, stack>>

\* C29: a settleDebt call by account X for a token and a creditor changes no
\* entry but the one of X towards that creditor on that token, and the
\* transfer it asks for is from X; a call by an account that owes nothing
\* changes nothing, whatever others owe, so nobody zeroes the debt of another
\* account or has its tokens transferred.
OwnDebtOnly ==
    [][OwnDebtOnlyHolds]_vars

\* An account that owes the creditor nothing has called settleDebt while
\* another account owes that creditor: the call failed and that debt stands.
OwnDebtOnlyWitness ==
    /\ lastCall.op = "settleDebt"
    /\ lastCall.result = ErrNoDebt
    /\ \E X \in Accounts \ {lastCall.sender} : debts[lastCall.token][X][lastCall.party] > 0

\* ------------------------------------------------------------ C30
\* C30: the Agree / Disagree controls that the add-debt command sends to the
\* debtor carry the id of the proposal that the command's own transaction
\* recorded, also when proposals of other users are recorded between that
\* transaction and the command's read of pendingDebtCounter.
ProposalIdBinding ==
    bot.pc = "sent" => bot.pendingDebtId = bot.tx

\* ------------------------------------------------------------ C31
\* The command has recorded its proposal and sent the debtor's message.
Announced == bot.pc \in {"sent", "confirmDebt"}

ControlsKeptHolds ==
    Announced /\ bot.components /\ pendingDebts'[bot.tx].exists => bot'.components

\* C31: once the add-debt command has recorded its proposal and sent the
\* debtor's message, the message has Agree / Disagree controls carrying the id
\* of that proposal for as long as the proposal is open; an attempt to
\* confirm that fails and leaves the proposal open leaves the controls in place.
ControlsWhileOpen ==
    /\ [](Announced /\ pendingDebts[bot.tx].exists =>
              bot.components /\ bot.pendingDebtId = bot.tx)
    /\ [][ControlsKeptHolds]_vars

\* ------------------------------------------------------------ C32
\* A handler that answered with permission denied has ended, and has neither
\* entered createAutomatedDebtProposals nor sent a transaction.
DeniedDidNothing ==
    \A h \in Handlers :
        h.reply = "Permission denied" =>
            /\ h.pc = "done" /\ ~h.ran
            /\ h.tx = 0 /\ h.success = 0 /\ h.failed = 0

\* Handler h takes its step in this transition.
Resumes(h) == CopiesIn(h, bills'.handlers) < CopiesIn(h, bills.handlers)

\* A click by a user other than the requester of the stored analysis is
\* answered with permission denied and changes nothing else.
OnlyRequesterHolds ==
    \A h \in Handlers :
        LET pendingAnalysis == bills.pendingBillAnalyses[h.message] IN
        /\ h.pc = "interaction" /\ Resumes(h)
        /\ pendingAnalysis # NoAnalysis
        /\ h.user # pendingAnalysis.requesterId
        => /\ bills' = [bills EXCEPT !.handlers =
                           Resumed(h, [h EXCEPT !.pc = "done",
                                                !.reply = "Permission denied"])]
           /\ UNCHANGED <<chain, stack>>

\* C32: only the user who requested a bill analysis can confirm or cancel it;
\* a click on either button by any other user is answered with permission
\* denied, creates no debt proposal and leaves the pending analysis in place.
OnlyRequester == []DeniedDidNothing /\ [][OnlyRequesterHolds]_vars

\* Another user's click has been answered with permission denied, and the
\* analysis is still pending with no proposal created.
OnlyRequesterWitness ==
    \E h \in Handlers :
        /\ h.reply = "Permission denied"
        /\ bills.pendingBillAnalyses[h.message] # NoAnalysis
        /\ h.user # bills.pendingBillAnalyses[h.message].requesterId
        /\ pendingDebtCounter = 0

\* ------------------------------------------------------------ C33
\* The number of handlers of message m that entered
\* createAutomatedDebtProposals.
Runs(m) ==
    BagCardinality([h \in {g \in Handlers : g.message = m /\ g.ran}
                        |-> CopiesIn(h, bills.handlers)])

\* The handlers of message m that answered a cancel-bills click with
\* 'Bill analysis cancelled. No debt proposals were created.'
Cancelled(m) ==
    {h \in Handlers : h.message = m /\ h.reply = "Bill analysis cancelled"}

\* createAutomatedDebtProposals runs at most once per analysis message.
RunsOnce == \A m \in Messages : Runs(m) <= 1

\* Where a cancel was answered, no handler of the message has sent a proposal.
CancelCreatesNone ==
    \A m \in Messages :
        Cancelled(m) # {} => \A h \in Handlers : h.message = m => h.tx = 0

\* C33: a pending bill analysis is processed at most once: for each analysis
\* message createAutomatedDebtProposals runs at most one time over any
\* interleaving of confirm and cancel clicks, and a cancel guarantees that no
\* proposals are created.
ProcessedAtMostOnce == RunsOnce /\ CancelCreatesNone

\* ------------------------------------------------------------ C34
\* pendingBillAnalyses has an entry for message m.
Stored(m) == bills.pendingBillAnalyses[m] # NoAnalysis

\* A click handled when the message has no entry is answered with 'expired or
\* not found' and changes nothing else.
ExpiredHolds ==
    \A h \in Handlers :
        /\ h.pc = "interaction" /\ Resumes(h)
        /\ ~Stored(h.message)
        => /\ bills' = [bills EXCEPT !.handlers =
                           Resumed(h, [h EXCEPT !.pc = "done",
                                       !.reply = "Analysis expired or not found"])]
           /\ UNCHANGED <<chain, stack>>

\* C34: every entry stored in pendingBillAnalyses is eventually removed (on
\* cancel, after processing, or by the timer), and a confirm or cancel click
\* handled after the removal is answered with 'expired or not found' and
\* creates no proposals.
AnalysesExpire ==
    /\ \A m \in Messages : Stored(m) ~> ~Stored(m)
    /\ [][ExpiredHolds]_vars

\* The timer has removed an entry, and a click made while the buttons were
\* still shown has been answered with 'expired or not found'.
AnalysesExpireWitness ==
    \E h \in Handlers :
        /\ h.reply = "Analysis expired or not found"
        /\ h.message <= bills.messages
        /\ h.message \notin bills.timers
        /\ ~Stored(h.message)
        /\ bills.components[h.message]
        /\ pendingDebtCounter = 0

\* ------------------------------------------------------------ C35
\* C35: the number of debt proposals announced for an analysis
\* (calculateTotalDebts) equals the number that createAutomatedDebtProposals
\* accounts for in its summary, success + failed.
AnnouncedCount ==
    \A h \in Handlers :
        h.ran /\ h.pc \in {"summary", "done"} =>
            h.success + h.failed = calculateTotalDebts(h.analysis)

\* ------------------------------------------------------------ C36
\* discordToWallet and walletToDiscord are mutual inverses; with that, no
\* wallet is registered for two ids and no id for two wallets.
RegistryInverse ==
    \A discordId \in DiscordIds, walletAddress \in Accounts :
        users.discordToWallet[discordId] = walletAddress
            <=> users.walletToDiscord[walletAddress] = discordId

\* A mapping that exists never changes.
RegistryWriteOnce ==
    /\ \A discordId \in DiscordIds :
            users.discordToWallet[discordId] # ZeroAddress =>
                users'.discordToWallet[discordId] = users.discordToWallet[discordId]
    /\ \A walletAddress \in Accounts :
            users.walletToDiscord[walletAddress] # "" =>
                users'.walletToDiscord[walletAddress] = users.walletToDiscord[walletAddress]

\* A registerUser call with an empty id, the zero address, a registered id or
\* a registered wallet fails and changes nothing.
RegistrationRefused ==
    lastCall'.op = "registerUser" /\ lastCall' # lastCall =>
        LET discordId == lastCall'.discordId
            walletAddress == lastCall'.walletAddress
            refused == \/ discordId = ""
                       \/ walletAddress = ZeroAddress
                       \/ users.discordToWallet[discordId] # ZeroAddress
                       \/ users.walletToDiscord[walletAddress] # ""
        IN  IF refused
            THEN /\ lastCall'.result \in {ErrEmptyId, ErrZeroWallet, ErrIdRegistered,
                                          ErrWalletRegistered}
                 /\ UNCHANGED <<chain, stack>>
            ELSE /\ lastCall'.result = Ok
                 /\ users'.discordToWallet[discordId] = walletAddress
                 /\ users'.walletToDiscord[walletAddress] = discordId

\* C36: after any sequence of registerUser calls, discordToWallet and
\* walletToDiscord are mutual inverses, each Discord id and each wallet is
\* registered at most once, an existing mapping never changes, and registering
\* an empty id, the zero address, a registered id or a registered wallet fails
\* with no state change.
RegistryOneToOne ==
    /\ []RegistryInverse
    /\ [][RegistryWriteOnce /\ RegistrationRefused]_vars

\* Both ids are registered, and the latest call, which named a registered id
\* or a registered wallet, was refused.
RegistryOneToOneWitness ==
    /\ \A discordId \in DiscordIds : users.discordToWallet[discordId] # ZeroAddress
    /\ lastCall.op = "registerUser"
    /\ lastCall.result \in {ErrIdRegistered, ErrWalletRegistered}

\* ------------------------------------------------------------ C37
\* Every ledger entry is a value of uint256.
EntriesInRange ==
    \A token \in Tokens, debtor \in Accounts, creditor \in Accounts :
        debts[token][debtor][creditor] \in 0..MaxUint

\* A confirm by the debtor of an open proposal with a positive amount: where
\* the netting would push the entry beyond the maximum, the call fails with a
\* Panic and changes nothing, the proposal staying open; otherwise it takes
\* effect and the net position moves by exactly the amount.
NoWraparoundHolds ==
    \A pendingDebtId \in Ids :
        LET pending == pendingDebts[pendingDebtId]
            existingOppositeDebt == debts[pending.token][pending.creditor][pending.debtor]
            entry == debts[pending.token][pending.debtor][pending.creditor]
        IN  /\ lastCall'.op = "confirmDebt" /\ lastCall'.id = pendingDebtId
            /\ pending.exists /\ lastCall'.sender = pending.debtor
            /\ pending.amount > 0 /\ pending.debtor # pending.creditor
            => IF /\ existingOppositeDebt < pending.amount
                  /\ entry + (pending.amount - existingOppositeDebt) > MaxUint
               THEN /\ lastCall'.result = ErrPanic
                    /\ UNCHANGED <<chain, stack>>
                    /\ pendingDebts'[pendingDebtId].exists
               ELSE /\ lastCall'.result = Ok
                    /\ debts'[pending.token][pending.debtor][pending.creditor]
                         - debts'[pending.token][pending.creditor][pending.debtor]
                       = entry - existingOppositeDebt + pending.amount

\* C37: a confirm whose netting would push the entry beyond the maximum
\* representable amount fails and leaves the ledger, the proposal (still
\* open), the sequence counter and the log unchanged; no ledger entry ever
\* takes a value obtained by modular overflow or underflow.
NoWraparound == []EntriesInRange /\ [][NoWraparoundHolds]_vars

\* A confirm has failed with a Panic: the entry is at the maximum and the
\* proposal is still open.
NoWraparoundWitness ==
    /\ lastCall.op = "confirmDebt" /\ lastCall.result = ErrPanic
    /\ pendingDebts[lastCall.id].exists
    /\ debts["T1"][pendingDebts[lastCall.id].debtor][pendingDebts[lastCall.id].creditor]
           = MaxUint

\* ------------------------------------------------------------ C38
\* The digits of n * 10^k, given the digits of n.
TimesPowerOfTen(digits, k) == StripLeadingZeros(digits \o Zeros(k))

\* The decimals by which an identifier's amounts are scaled: 6 for USDC, 18
\* for ETH, 18 for the address of no supported token.
ScaleOf(tokenIdentifier) ==
    IF tokenIdentifier \in {"USDC", "usdc"} THEN UsdcDecimals
    ELSE IF tokenIdentifier = "ETH" THEN EthDecimals
    ELSE DefaultDecimals

\* A whole-unit amount n is parsed to n * 10^d.
WholeUnitsScaled ==
    /\ units.pc = "test-parse"
    /\ units.tokenIdentifier \in {"USDC", "usdc", "ETH", OtherAddress}
    /\ units.amountRaw # <<>>
    /\ \A i \in DOMAIN units.amountRaw : units.amountRaw[i] \in Digit
    => units.amount = TimesPowerOfTen(units.amountRaw, ScaleOf(units.tokenIdentifier))

\* What is parsed for USDC is parsed for ETH to 10^12 times as much.
UsdcEthFactor ==
    /\ units.pc = "test-parse"
    /\ units.tokenIdentifier \in {"USDC", "usdc"}
    /\ units.amount # ErrAmountFormat
    => parseTokenAmount(units.amountRaw, parseTokenIdentifier("ETH"))
           = IF units.amount[1] = "-"
             THEN <<"-">> \o TimesPowerOfTen(Tail(units.amount),
                                             EthDecimals - UsdcDecimals)
             ELSE TimesPowerOfTen(units.amount, EthDecimals - UsdcDecimals)

\* Parsing what formatTokenAmount produced, without the symbol, gives the
\* amount that was formatted.
FormatParseRoundTrip ==
    units.pc = "parseTokenAmount" => units.parsed = units.amount

====
